---- MODULE Spec2Model ----
(***************************************************************************)
(* A model of the file-based record store of the IOCCC submit tool         *)
(* (src/iocccsubmit/ioccc_common.py): the lock primitive, the password     *)
(* file helpers, the slot store and the staging pipeline, run by several   *)
(* OS processes that share one filesystem.                                 *)
(*                                                                         *)
(* Each process executes store operations one step at a time.  A step is   *)
(* the code between two points at which another process can observe or     *)
(* change the shared files: a lock acquisition is its own step (it can     *)
(* wait or time out), and so is every access to a file that is not         *)
(* protected by the lock the process holds.                                *)
(***************************************************************************)
EXTENDS Integers, Sequences, FiniteSets, TLC

\* ------------------------------------------------------------------ bounds

\* operations the processes may start in all
MaxOps == 4

\* operations the second process of the slot store may start
MaxOthers == 1

\* ------------------------------------------------------------- the universe

Procs == {"p1", "p2"}

\* in the slot pipeline p1 is a worker of the web application, which takes the
\* uploads, and p2 is the collector, which stages the slots
Uploaders == {"p1"}
Stagers == {"p2"}

\* Python's None / JSON null, for string-valued fields
None == "None"
\* JSON null for the int-valued slot length
NullLength == -1
\* a directory entry that does not exist
NoFile == "NoFile"

\* the user whose slots are exercised, and the modelled slot numbers
\* (an initial segment of range(0, MAX_SUBMIT_SLOT+1))
USER == "alice"
Slots == {0, 1}

\* the slot the uploads, the status updates and the staging are called with
WorkSlots == {0}

\* submit file names the upload route accepts for (USER, 0), and file contents
Names == {"submit.alice-0.1700000001.txz", "submit.alice-0.1700000002.txz"}
Contents == {"c1", "c2"}
\* the content of an empty file
EMPTY_FILE == "c0"

\* os.path.getsize() and hashlib.sha256().hexdigest() of a file content
getsize(c) == IF c = EMPTY_FILE THEN 0 ELSE IF c = "c1" THEN 10 ELSE 20
sha256_file(c) == "sha256:" \o c

NO_COMMENT_VALUE == "mandatory comment: because comments were removed from the original JSON spec"
SLOT_VERSION_VALUE == "1.2 2025-01-26"
PASSWORD_VERSION_VALUE == "1.3 2025-02-12"

PW_LOCK == "etc/iocccpasswd.lock"
STATE_FILE_LOCK == "etc/state.lock"
return_slot_lockfile(username, slot_num) ==
    "users/" \o username \o "/" \o ToString(slot_num) \o "/lock"
LockPaths == {PW_LOCK, STATE_FILE_LOCK} \cup {return_slot_lockfile(USER, n) : n \in Slots}

STAGED_DIR == "staged"
StagedPath(submit_file) == STAGED_DIR \o "/" \o submit_file

\* EMPTY_JSON_SLOT_TEMPLATE with $slot_num substituted
TemplateWithLength(slot_num) ==
    [no_comment |-> NO_COMMENT_VALUE,
     slot_JSON_format_version |-> SLOT_VERSION_VALUE,
     slot |-> slot_num,
     filename |-> None,
     length |-> 0,
     date |-> None,
     SHA256 |-> None,
     collected |-> FALSE,
     status |-> "slot is empty"]
EmptySlotDict(slot_num) ==
    [no_comment |-> NO_COMMENT_VALUE,
     slot_JSON_format_version |-> SLOT_VERSION_VALUE,
     slot |-> slot_num,
     filename |-> None,
     length |-> NullLength,
     date |-> None,
     SHA256 |-> None,
     collected |-> FALSE,
     status |-> "slot is empty"]

\* a record of the password file
UserRecord(username, pwhash) ==
    [no_comment |-> NO_COMMENT_VALUE,
     iocccpasswd_format_version |-> PASSWORD_VERSION_VALUE,
     username |-> username,
     pwhash |-> pwhash,
     email |-> None]

\* the content of the initial password file (etc/init.iocccpasswd.json)
INIT_PW_FILE == <<UserRecord(USER, "h0")>>

\* ---------------------------------------------------------------- the state

VARIABLES
    flock,                  \* lock path -> the lock handles holding flock() on it
    pwfile,                 \* etc/iocccpasswd.json: [st, users]
    statefile,              \* etc/state.json: [st, d]
    slotjson,               \* slot number -> [st, d]: users/USER/<n>/slot.json
    slotdir,                \* slot number -> name -> content: submit files in the slot
    staged,                 \* name -> content: STAGED_DIR
    unexpected,             \* name -> content: UNEXPECTED_DIR
    pc,                     \* process -> where it is
    stack,                  \* process -> the steps to return to
    op,                     \* process -> the operation it runs (or ran last)
    nops,                   \* process -> operations started
    result,                 \* process -> what its last operation returned
    loc,                    \* process -> the local variables of the running operation
    ioccc_last_lock_fd,     \* process -> the path of the registered FileLock, or None
    ioccc_last_lock_path,   \* process -> the registered lock path, or None
    ioccc_last_errmsg       \* process -> the last error message

fsvars == <<pwfile, statefile, slotjson, slotdir, staged, unexpected>>
lockvars == <<flock, ioccc_last_lock_fd, ioccc_last_lock_path, ioccc_last_errmsg>>
procvars == <<pc, stack, op, nops, result, loc>>
vars == <<fsvars, lockvars, procvars>>

NoOp == [name |-> "none", user |-> None, slot |-> 0, file |-> None, pwhash |-> None,
         status |-> None, set_collected_to_true |-> FALSE, email |-> None]
Op(name, user) == [NoOp EXCEPT !.name = name, !.user = user]
NoDatetime == -1
NoResult == [op |-> "none", status |-> "none", sha |-> None, path |-> None, count |-> 0,
             newfile |-> [st |-> "missing", users |-> <<>>],
             open_datetime |-> NoDatetime, close_datetime |-> NoDatetime,
             open_close |-> <<FALSE, FALSE, FALSE>>]
LocInit == [lock_ok |-> FALSE,
            pw |-> [ok |-> FALSE, users |-> <<>>],
            slot_dict |-> EmptySlotDict(0),
            sha |-> None,
            k |-> 0,
            seen |-> [file |-> NoFile, collected |-> FALSE, locked |-> FALSE],
            modified |-> {},
            timed_out |-> None,
            took_lock |-> FALSE,
            alone |-> FALSE,
            again |-> FALSE,
            before |-> <<>>,
            slots |-> <<>>,
            read |-> EmptySlotDict(0),
            username_with_email |-> None]

EmptyDir == [f \in Names |-> NoFile]

\* the local variables of all processes when p starts an operation: the
\* operations the others are running are no longer alone
Interrupted(l, p) ==
    [q \in Procs |-> IF q = p THEN l[q] ELSE [l[q] EXCEPT !.alone = FALSE]]

\* --------------------------------------------------------- the lock primitive

\* a lock handle: the process-wide singleton FileLock that ioccc_file_lock() uses
\* for a path, or the FileLock local to read_pwfile()
Handle(p, kind) == <<p, kind>>

\* FileLock.acquire(): flock(LOCK_EX | LOCK_NB) on a new open file description
\* succeeds only when no other handle holds the lock on that file
CanAcquireAlways(h, file_lock) == TRUE
CanAcquire(h, file_lock) == flock[file_lock] \ {h} = {}

\* the lock paths a process holds
HeldBy(p) == {l \in LockPaths : \E k \in {"singleton", "local"} : Handle(p, k) \in flock[l]}

\* the lock state ioccc_file_lock() and ioccc_file_unlock() work on, for process p
LS(p) == [fl |-> flock,
          fd |-> ioccc_last_lock_fd[p],
          path |-> ioccc_last_lock_path[p],
          msg |-> ioccc_last_errmsg[p]]

SetLS(p, ls) ==
    /\ flock' = ls.fl
    /\ ioccc_last_lock_fd' = [ioccc_last_lock_fd EXCEPT ![p] = ls.fd]
    /\ ioccc_last_lock_path' = [ioccc_last_lock_path EXCEPT ![p] = ls.path]
    /\ ioccc_last_errmsg' = [ioccc_last_errmsg EXCEPT ![p] = ls.msg]

WithMsg(ls, msg) == [ls EXCEPT !.msg = msg]

\* the registered FileLock is taken for unlocked
is_locked_never(p, ls) == FALSE
\* ioccc_last_lock_fd.is_locked
is_locked(p, ls) == ls.fd # None /\ Handle(p, "singleton") \in ls.fl[ls.fd]

\* ioccc_file_lock() up to the call of acquire(): force any stale lock to become
\* unlocked, then register the FileLock of file_lock
KeepStaleLock(p, ls, file_lock) ==
    [ls EXCEPT !.fd = file_lock, !.path = file_lock]
ioccc_file_lock_prepare(p, ls, file_lock) ==
    IF ls.fd # None
    THEN IF is_locked(p, ls)
         THEN [fl |-> [ls.fl EXCEPT ![ls.fd] = @ \ {Handle(p, "singleton")}],
               fd |-> file_lock,
               path |-> file_lock,
               msg |-> "Warning: forcing unlock of old lock"]
         ELSE [fl |-> ls.fl,
               fd |-> file_lock,
               path |-> file_lock,
               msg |-> "Warning: old lock state is unlocked"]
    ELSE [ls EXCEPT !.fd = file_lock, !.path = file_lock]

\* ioccc_file_unlock()
ForgetLock(p, ls) == [ls EXCEPT !.fd = None, !.path = None]
ioccc_file_unlock(p, ls) ==
    IF ls.fd = None
    THEN [ls EXCEPT !.path = None, !.msg = "Notice: no lock to unlock"]
    ELSE [fl |-> [ls.fl EXCEPT ![ls.fd] = @ \ {Handle(p, "singleton")}],
          fd |-> None,
          path |-> None,
          msg |-> ls.msg]

\* ------------------------------------------------------------ call and return

Goto(p, label) == pc' = [pc EXCEPT ![p] = label]

\* call a multi-step function: run it from `label`, come back to `back`
Call(p, label, back) ==
    /\ pc' = [pc EXCEPT ![p] = label]
    /\ stack' = [stack EXCEPT ![p] = <<back>> \o @]

\* return from a multi-step function
Pop(p) ==
    /\ pc' = [pc EXCEPT ![p] = Head(stack[p])]
    /\ stack' = [stack EXCEPT ![p] = Tail(@)]

\* the operation returns to its caller
Return(p, res) ==
    /\ pc' = [pc EXCEPT ![p] = "idle"]
    /\ stack' = [stack EXCEPT ![p] = <<>>]
    /\ result' = [result EXCEPT ![p] = res]
    /\ loc' = [loc EXCEPT ![p] = LocInit]

Begin(p, o) ==
    /\ pc[p] = "idle"
    /\ nops["p1"] + nops["p2"] < MaxOps
    /\ nops' = [nops EXCEPT ![p] = @ + 1]
    /\ op' = [op EXCEPT ![p] = o]
    /\ result' = [result EXCEPT ![p] = NoResult]

\* ioccc_file_lock(), the call of acquire(): the lock is obtained, or the
\* acquisition times out while another handle holds it
ioccc_file_lock_acquire(p) ==
    /\ pc[p] = "fl_acquire"
    /\ LET file_lock == ioccc_last_lock_fd[p]
           h == Handle(p, "singleton")
       IN \/ /\ CanAcquire(h, file_lock)
             /\ flock' = [flock EXCEPT ![file_lock] = @ \cup {h}]
             /\ loc' = [loc EXCEPT ![p].lock_ok = TRUE, ![p].took_lock = TRUE]
             /\ UNCHANGED ioccc_last_errmsg
          \/ /\ ~CanAcquire(h, file_lock)
             /\ ioccc_last_errmsg' = [ioccc_last_errmsg EXCEPT ![p] = "Warning: lock timeout"]
             /\ loc' = [loc EXCEPT ![p].lock_ok = FALSE, ![p].timed_out = file_lock]
             /\ UNCHANGED flock
    /\ Pop(p)
    /\ UNCHANGED <<fsvars, ioccc_last_lock_fd, ioccc_last_lock_path, op, nops, result>>

\* ----------------------------------------------------------- the state file

STATE_VERSION_VALUE == "1.2 2025-01-26"

\* date strings: two spellings of one instant, two later instants, and a
\* string that is not in DATETIME_USEC_FORMAT ("%Y-%m-%d %H:%M:%S.%f UTC")
OPEN_DATE == "2025-01-01 00:00:00.000000 UTC"
OPEN_DATE_SHORT == "2025-01-01 00:00:00.0 UTC"
OPEN_DATE_LATER == "2025-02-01 00:00:00.000000 UTC"
CLOSE_DATE == "2025-12-31 23:59:59.999999 UTC"
NOT_A_DATE == "2025-01-01 00:00:00 UTC"

\* datetime.datetime.strptime(date, DATETIME_USEC_FORMAT): the instant, or
\* NoDatetime where it raises ValueError (%f takes one to six digits)
strptime(date) ==
    CASE date = OPEN_DATE -> 1
      [] date = OPEN_DATE_SHORT -> 1
      [] date = OPEN_DATE_LATER -> 2
      [] date = CLOSE_DATE -> 3
      [] OTHER -> NoDatetime

\* the two dates change places in the document
StateDictSwapped(version, open_date, close_date) ==
    [no_comment |-> NO_COMMENT_VALUE,
     state_JSON_format_version |-> version,
     open_date |-> close_date,
     close_date |-> open_date]

\* the JSON document of DEFAULT_JSON_STATE_TEMPLATE
StateDict(version, open_date, close_date) ==
    [no_comment |-> NO_COMMENT_VALUE,
     state_JSON_format_version |-> version,
     open_date |-> open_date,
     close_date |-> close_date]

\* etc/init.state.json, a state file with the dates of a contest
INIT_STATE_FILE == StateDict(STATE_VERSION_VALUE, OPEN_DATE, CLOSE_DATE)

StateMissing == [st |-> "missing", d |-> INIT_STATE_FILE]
StateEmpty == [st |-> "empty", d |-> INIT_STATE_FILE]
StateBad == [st |-> "bad", d |-> INIT_STATE_FILE]
StateOk(d) == [st |-> "ok", d |-> d]

\* "If there is no state file, or if the state file is empty, copy it from
\* the initial state file"
SeedStateFile(f) == IF f.st \in {"missing", "empty"} THEN StateOk(INIT_STATE_FILE) ELSE f

\* read_state() after read_json_file_nolock(): the error message of the
\* first check that the document fails, or None
StateError(f) ==
    IF f.st # "ok" THEN "Warning: read_state: unable to read the state file"
    ELSE IF f.d.no_comment # NO_COMMENT_VALUE
    THEN "ERROR: read_state: invalid JSON no_comment in state file"
    ELSE IF f.d.state_JSON_format_version # STATE_VERSION_VALUE
    THEN "ERROR: read_state: invalid JSON state_JSON_format_version in state file"
    ELSE IF strptime(f.d.open_date) = NoDatetime
    THEN "ERROR: read_state: state file open_date is not in proper datetime format"
    ELSE IF strptime(f.d.close_date) = NoDatetime
    THEN "ERROR: read_state: state file close_date is not in proper datetime format"
    ELSE None

\* ------------------------------------------------ the firewall of the arguments

MIN_USERNAME_LENGTH == 1
MAX_USERNAME_LENGTH == 40

\* the username arguments the operations are called with from outside: the
\* known user, that name followed by a newline, the empty string, a name with
\* a slash, a name of MAX_USERNAME_LENGTH + 1 letters, and a value that is
\* not a string
NEWLINE_NAME == "alice\n"
SLASH_NAME == "a/b"
LONG_NAME == "aaaaaaaaaaaaaaaaaaaaaaaaaaaaaaaaaaaaaaaaa"
NOT_A_STRING == "<int 7>"
UsernameArgs == {USER, NEWLINE_NAME, "", SLASH_NAME, LONG_NAME, NOT_A_STRING}

\* the characters of a string argument
Characters(arg) ==
    CASE arg = "alice" -> <<"a", "l", "i", "c", "e">>
      [] arg = "bob" -> <<"b", "o", "b">>
      [] arg = NEWLINE_NAME -> <<"a", "l", "i", "c", "e", "\n">>
      [] arg = "" -> <<>>
      [] arg = SLASH_NAME -> <<"a", "/", "b">>
      [] arg = LONG_NAME -> [i \in 1..(MAX_USERNAME_LENGTH + 1) |-> "a"]
      [] OTHER -> <<>>

\* [0-9A-Za-z] and [0-9A-Za-z._+-], as far as the arguments go
AlnumChars == {"a", "b", "c", "e", "i", "l", "o"}
SafeChars == AlnumChars \cup {".", "_", "+", "-"}

\* re.match(POSIX_SAFE_RE, username) with POSIX_SAFE_RE = "^[0-9A-Za-z][0-9A-Za-z._+-]*$":
\* $ matches at the end of the string and also just before a newline that
\* ends the string
re_match_POSIX_SAFE_RE(chars) ==
    /\ Len(chars) >= 1
    /\ chars[1] \in AlnumChars
    /\ LET last == IF chars[Len(chars)] = "\n" THEN Len(chars) - 1 ELSE Len(chars)
       IN \A i \in 2..last : chars[i] \in SafeChars

\* check_username_arg(username, parent): the error message, or None when the
\* username passes
check_username_arg(username) ==
    IF username = NOT_A_STRING THEN "ERROR: check_username_arg: username arg is not a string"
    ELSE IF Len(Characters(username)) = 0 THEN "ERROR: check_username_arg: username is empty"
    ELSE IF Len(Characters(username)) < MIN_USERNAME_LENGTH
    THEN "ERROR: check_username_arg: username arg is too short"
    ELSE IF Len(Characters(username)) > MAX_USERNAME_LENGTH
    THEN "ERROR: check_username_arg: username arg is too long"
    ELSE IF ~re_match_POSIX_SAFE_RE(Characters(username))
    THEN "ERROR: check_username_arg: username arg not POSIX safe"
    ELSE None

\* the slot number arguments: below the range, in it, above it
SlotNumArgs == {-1} \cup WorkSlots \cup {1 + CHOOSE n \in Slots : \A m \in Slots : m <= n}

\* check_slot_num_arg(slot_num): the error message, or None.  The slots of
\* the model, Slots, stand for 0..MAX_SUBMIT_SLOT.
check_slot_num_arg(slot_num) ==
    IF slot_num \notin Slots THEN "ERROR: check_slot_num_arg: invalid slot number" ELSE None

\* the process that calls the password store with arguments from outside
Callers == {"p1"}

\* an operation is called: it is counted and its arguments are kept
Called(p, o) ==
    /\ pc[p] = "idle"
    /\ nops["p1"] + nops["p2"] < MaxOps
    /\ nops' = [nops EXCEPT ![p] = @ + 1]
    /\ op' = [op EXCEPT ![p] = o]

\* the firewall rejects the arguments: the operation sets the last error
\* message and returns its failure value
Rejected(p, msg) ==
    /\ result' = [result EXCEPT ![p] = [NoResult EXCEPT !.op = op'[p].name, !.status = "fail"]]
    /\ ioccc_last_errmsg' = [ioccc_last_errmsg EXCEPT ![p] = msg]
    /\ UNCHANGED <<fsvars, flock, ioccc_last_lock_fd, ioccc_last_lock_path, pc, stack, loc>>

\* -------------------------------------------------------- the password file

PwMissing == [st |-> "missing", users |-> <<>>]
PwEmpty == [st |-> "empty", users |-> <<>>]
PwOk(users) == [st |-> "ok", users |-> users]

\* "If there is no password file, or if the password file is empty, copy it
\* from the initial password file": what read_pwfile(), update_username() and
\* delete_username() do to the file before they read it
SeedPwFile(f) == IF f.st \in {"missing", "empty"} THEN PwOk(INIT_PW_FILE) ELSE f

\* the record an operation modifies when it seeds the password file
Seeded(f) == IF f.st \in {"missing", "empty"} THEN {"pw"} ELSE {}

\* read_pwfile(): acquire its own FileLock on PW_LOCK, or time out
read_pwfile_acquire(p) ==
    /\ pc[p] = "rp_acquire"
    /\ LET h == Handle(p, "local")
       IN \/ /\ CanAcquire(h, PW_LOCK)
             /\ flock' = [flock EXCEPT ![PW_LOCK] = @ \cup {h}]
             /\ Goto(p, "rp_read")
             /\ UNCHANGED <<stack, loc, ioccc_last_errmsg>>
          \/ /\ ~CanAcquire(h, PW_LOCK)
             /\ ioccc_last_errmsg' = [ioccc_last_errmsg EXCEPT ![p] = "Warning: lock timeout"]
             /\ loc' = [loc EXCEPT ![p].pw = [ok |-> FALSE, users |-> <<>>],
                                   ![p].timed_out = PW_LOCK]
             /\ Pop(p)
             /\ UNCHANGED flock
    /\ UNCHANGED <<fsvars, ioccc_last_lock_fd, ioccc_last_lock_path, op, nops, result>>

\* read_pwfile(): load the password file, release the lock, return the list.
\* An empty list reaches the reference to the unbound name errcode, and an empty
\* file or one that is not JSON makes json.load() fail with a JSONDecodeError,
\* which is no OSError: all of these raise out of the operation (the local
\* FileLock is dropped with the frame).  A missing file is the OSError path.
read_pwfile_read(p) ==
    /\ pc[p] = "rp_read"
    /\ flock' = [flock EXCEPT ![PW_LOCK] = @ \ {Handle(p, "local")}]
    /\ IF (pwfile.st = "ok" /\ pwfile.users = <<>>) \/ pwfile.st \in {"empty", "bad"}
       THEN /\ Return(p, [NoResult EXCEPT !.op = op[p].name, !.status = "raised"])
            /\ UNCHANGED ioccc_last_errmsg
       ELSE /\ IF pwfile.st = "ok"
               THEN /\ loc' = [loc EXCEPT ![p].pw = [ok |-> TRUE, users |-> pwfile.users]]
                    /\ UNCHANGED ioccc_last_errmsg
               ELSE /\ loc' = [loc EXCEPT ![p].pw = [ok |-> FALSE, users |-> <<>>]]
                    /\ ioccc_last_errmsg' =
                           [ioccc_last_errmsg EXCEPT ![p] = "ERROR: cannot read password file"]
            /\ Pop(p)
            /\ UNCHANGED result
    /\ UNCHANGED <<fsvars, ioccc_last_lock_fd, ioccc_last_lock_path, op, nops>>

\* lookup_username() after read_pwfile() returned: search the list for username
lookup_username(pw, username) ==
    /\ pw.ok
    /\ \E i \in 1..Len(pw.users) : pw.users[i].username = username

\* ------------------------------------------------------------ the slot store

SlotMissing == [st |-> "missing", d |-> EmptySlotDict(0)]
\* a slot JSON file that is not JSON (empty, or cut short by a write that failed)
SlotBad == [st |-> "bad", d |-> EmptySlotDict(0)]
SlotOk(d) == [st |-> "ok", d |-> d]

\* the date update_slot() records
UPLOAD_DATE == "2025-02-28 12:34:56.654321 UTC"

lock_slot_path(o) == return_slot_lockfile(o.user, o.slot)

\* the record initialize_user_tree() modifies when it creates slot k from the template
SlotSeeded(k) == IF slotjson[k].st # "ok" THEN {"slot"} ELSE {}

\* validate_slot_dict_nolock(): the first error found in a slot dictionary, or
\* None.  Without a filename the length, the date and the SHA256 are tested
\* for truth (`elif slot_dict['length']:`), so that 0 and "" pass as null does.
validate_slot_dict_nolock(d, slot_num) ==
    IF d.no_comment # NO_COMMENT_VALUE THEN "invalid slot no_comment"
    ELSE IF d.slot_JSON_format_version # SLOT_VERSION_VALUE THEN "invalid slot_JSON_format_version"
    ELSE IF d.slot # slot_num THEN "wrong slot number"
    ELSE IF d.filename # None /\ d.filename \notin Names THEN "invalid slot filename timestamp"
    ELSE IF d.filename # None /\ d.length < 0 THEN "slot length not >= 0"
    ELSE IF d.filename = None /\ d.length # NullLength /\ d.length # 0 THEN "have length w/o filename"
    ELSE IF d.filename # None /\ d.date = None THEN "slot date is not a string"
    ELSE IF d.filename # None /\ d.date = "" THEN "slot date format is invalid"
    ELSE IF d.filename = None /\ d.date \notin {None, ""} THEN "have date w/o filename"
    ELSE IF d.filename # None /\ d.SHA256 = None THEN "slot SHA256 is not a string"
    ELSE IF d.filename # None /\ d.SHA256 = "" THEN "slot SHA256 length is wrong"
    ELSE IF d.filename = None /\ d.SHA256 \notin {None, ""} THEN "have SHA256 w/o filename"
    ELSE IF d.filename = None /\ d.collected THEN "submit file was collected w/o filename"
    ELSE None

\* validate_slot_nolock() after its lookup_username() returned pw: the slot error, or None.
\* dir is the slot directory as it is when the submit file is examined.
ValidateWithoutFileChecks(pw, d, username, slot_num, dir, submit_required, check_hash) ==
    IF ~lookup_username(pw, username) THEN "no such username"
    ELSE validate_slot_dict_nolock(d, slot_num)
validate_slot_nolock(pw, d, username, slot_num, dir, submit_required, check_hash) ==
    IF ~lookup_username(pw, username) THEN "no such username"
    ELSE IF validate_slot_dict_nolock(d, slot_num) # None
    THEN validate_slot_dict_nolock(d, slot_num)
    ELSE IF d.filename # None
    THEN IF dir[d.filename] # NoFile
         THEN IF check_hash /\ sha256_file(dir[d.filename]) # d.SHA256
              THEN "submit file corrupted contents"
              ELSE IF d.collected
              THEN "submit file collected but still exists"
              ELSE IF getsize(dir[d.filename]) # d.length
              THEN "submit file length is wrong"
              ELSE None
         ELSE IF submit_required
         THEN "submit file is missing"
         ELSE IF ~d.collected
         THEN "submit file is gone but not collected"
         ELSE None
    ELSE IF submit_required
    THEN "submit file is expected to exist but does not"
    ELSE IF d.collected
    THEN "submit file was collected w/o filename"
    ELSE None

\* a sweep that removes the files of the slot directory
remove_unexpected_nolock(dir, unexp) ==
    {[dir |-> EmptyDir,
      unexp |-> unexp,
      count |-> Cardinality({f \in Names : dir[f] # NoFile}),
      failed |-> FALSE]}

\* move_unexpected_nolock(): the possible outcomes of sweeping the slot directory
\* dir into the unexpected directory unexp.  glob() yields the files in directory
\* order; shutil.move() of a file whose name already exists in UNEXPECTED_DIR
\* raises, and the function then returns 0 at once, whatever it moved before.
move_unexpected_nolock(dir, unexp) ==
    LET found == {f \in Names : dir[f] # NoFile}
        clash == {f \in found : unexp[f] # NoFile}
    IN IF clash = {}
       THEN {[dir |-> EmptyDir,
              unexp |-> [f \in Names |-> IF f \in found THEN dir[f] ELSE unexp[f]],
              count |-> Cardinality(found),
              failed |-> FALSE]}
       ELSE {[dir |-> [f \in Names |-> IF f \in moved THEN NoFile ELSE dir[f]],
              unexp |-> [f \in Names |-> IF f \in moved THEN dir[f] ELSE unexp[f]],
              count |-> 0,
              failed |-> TRUE] : moved \in SUBSET (found \ clash)}

\* ------------------------------------------------------ the staging pipeline

StageFailure(count) ==
    [op |-> "stage_submit", status |-> "fail", sha |-> None, path |-> ".", count |-> count]
StageSuccess(hexdigest, staged_path, count) ==
    [op |-> "stage_submit", status |-> "ok", sha |-> hexdigest, path |-> staged_path,
     count |-> count]

\* a failure exit of stage_submit() taken under the slot lock:
\*     unexpected_count = move_unexpected_nolock(slot_dir); unlock_slot();
\*     return None, '.', unexpected_count
StageSweepAndFail(p, msg) ==
    \E o \in move_unexpected_nolock(slotdir[op[p].slot], unexpected) :
        /\ slotdir' = [slotdir EXCEPT ![op[p].slot] = o.dir]
        /\ unexpected' = o.unexp
        /\ SetLS(p, ioccc_file_unlock(p,
               WithMsg(LS(p), IF o.failed THEN "ERROR: move_unexpected_nolock failed" ELSE msg)))
        /\ Return(p, StageFailure(o.count))

\* stage_submit(username, slot_num) up to the first lookup_username(), as
\* the start of the operation o
StageSubmit(p, o) ==
    /\ Begin(p, o)
    /\ pwfile' = SeedPwFile(pwfile)
    /\ loc' = [Interrupted(loc, p) EXCEPT
                  ![p].modified = Seeded(pwfile),
                  ![p].alone = \A q \in Procs \ {p} : pc[q] = "idle"]
    /\ Call(p, "rp_acquire", "st_lock")
    /\ UNCHANGED <<statefile, slotjson, slotdir, staged, unexpected, lockvars>>

stage_submit(p) ==
    /\ p \in Stagers
    /\ \E n \in WorkSlots : StageSubmit(p, [Op("stage_submit", USER) EXCEPT !.slot = n])

\* stage_submit() called by any process
stage_submit_any(p) ==
    \E n \in WorkSlots : StageSubmit(p, [Op("stage_submit", USER) EXCEPT !.slot = n])

\* stage_submit(): the username was looked up; lock the slot
stage_lock_slot(p) ==
    /\ pc[p] = "st_lock"
    /\ IF ~lookup_username(loc[p].pw, op[p].user)
       THEN /\ SetLS(p, WithMsg(LS(p), "ERROR: stage_submit unknown username"))
            /\ Return(p, StageFailure(0))
       ELSE /\ SetLS(p, ioccc_file_lock_prepare(p, LS(p), lock_slot_path(op[p])))
            /\ Call(p, "fl_acquire", "st_locked")
            /\ UNCHANGED <<result, loc>>
    /\ UNCHANGED <<fsvars, op, nops>>

\* stage_submit(): lock_slot() returned; read the slot dictionary and start
\* validate_slot_nolock(), which looks the username up again
stage_get_slot_dict(p) ==
    /\ pc[p] = "st_locked"
    /\ IF ~loc[p].lock_ok
       THEN /\ SetLS(p, WithMsg(LS(p), "ERROR: stage_submit lock_slot failed"))
            /\ Return(p, StageFailure(0))
            /\ UNCHANGED fsvars
       ELSE IF slotjson[op[p].slot].st # "ok"
       THEN /\ StageSweepAndFail(p, "ERROR: read_json_file_nolock failed")
            /\ UNCHANGED <<pwfile, statefile, slotjson, staged>>
       ELSE /\ loc' = [loc EXCEPT ![p].slot_dict = slotjson[op[p].slot].d,
                                  ![p].modified = @ \cup Seeded(pwfile)]
            /\ pwfile' = SeedPwFile(pwfile)
            /\ Call(p, "rp_acquire", "st_validate")
            /\ UNCHANGED <<statefile, slotjson, slotdir, staged, unexpected, lockvars, result>>
    /\ UNCHANGED <<op, nops>>

\* stage_submit(): validate_slot_nolock(slot_dict, username, slot_num, True, True)
\* finishes after its lookup_username()
stage_validate(p) ==
    /\ pc[p] = "st_validate"
    /\ LET d == loc[p].slot_dict
           slot_err == validate_slot_nolock(loc[p].pw, d, op[p].user, op[p].slot,
                                            slotdir[op[p].slot], TRUE, TRUE)
       IN IF slot_err # None
          THEN /\ StageSweepAndFail(p, "ERROR: stage_submit: slot invalid")
               /\ UNCHANGED <<pwfile, statefile, slotjson, staged>>
          ELSE /\ loc' = [loc EXCEPT ![p].seen =
                              [file |-> IF d.filename \in Names
                                        THEN slotdir[op[p].slot][d.filename]
                                        ELSE NoFile,
                               collected |-> d.collected,
                               locked |-> lock_slot_path(op[p]) \in HeldBy(p)]]
               /\ Goto(p, "st_replace")
               /\ UNCHANGED <<fsvars, lockvars, stack, result>>
    /\ UNCHANGED <<op, nops>>

\* stage_submit(): return_submit_path(), os.replace(submit_path, staged_path), then mark the slot as
\* collected and write it with write_slot_json_nolock(), whose result is ignored
\* (ok = FALSE: the slot JSON file could not be opened for writing)
stage_replace(p) ==
    /\ pc[p] = "st_replace"
    /\ LET n == op[p].slot
           submit_file == loc[p].slot_dict.filename
           new_dict == [loc[p].slot_dict EXCEPT
                           !.collected = TRUE,
                           !.status = "successfully moved submit file into the staging area"]
       IN IF submit_file = None
          THEN /\ StageSweepAndFail(p, "ERROR: return_submit_path failed")
               /\ UNCHANGED <<pwfile, statefile, slotjson, staged>>
          ELSE IF slotdir[n][submit_file] = NoFile
          THEN /\ StageSweepAndFail(p, "ERROR: stage_submit: replace failed")
               /\ UNCHANGED <<pwfile, statefile, slotjson, staged>>
          ELSE /\ staged' = [staged EXCEPT ![submit_file] = slotdir[n][submit_file]]
               /\ slotdir' = [slotdir EXCEPT ![n][submit_file] = NoFile]
               /\ \E ok \in BOOLEAN :
                      /\ slotjson' = IF ok THEN [slotjson EXCEPT ![n] = SlotOk(new_dict)]
                                     ELSE slotjson
                      /\ SetLS(p, IF ok THEN LS(p)
                                  ELSE WithMsg(LS(p), "ERROR: failed to write out slot file"))
                      /\ loc' = [loc EXCEPT ![p].slot_dict = new_dict,
                                            ![p].modified = IF ok THEN @ \cup {"slot"} ELSE @]
               /\ Goto(p, "st_sweep")
               /\ UNCHANGED <<pwfile, statefile, unexpected, stack, result>>
    /\ UNCHANGED <<op, nops>>

\* stage_submit(): sweep what remains, unlock the slot, return the SHA256 hash
stage_return(p) ==
    /\ pc[p] = "st_sweep"
    /\ \E o \in move_unexpected_nolock(slotdir[op[p].slot], unexpected) :
           /\ slotdir' = [slotdir EXCEPT ![op[p].slot] = o.dir]
           /\ unexpected' = o.unexp
           /\ SetLS(p, ioccc_file_unlock(p,
                  IF o.failed THEN WithMsg(LS(p), "ERROR: move_unexpected_nolock failed")
                  ELSE LS(p)))
           /\ Return(p, StageSuccess(loc[p].slot_dict.SHA256,
                                     StagedPath(loc[p].slot_dict.filename), o.count))
    /\ UNCHANGED <<pwfile, statefile, slotjson, staged, op, nops>>

\* ------------------------------------------------------- bin/stage.py

\* the slot_path arguments of stage.py: whether the path is a directory, the
\* last component of its parent and its own last component
SlotPath(is_dir, username, slot_num_str) ==
    [is_dir |-> is_dir, username |-> username, slot_num_str |-> slot_num_str]

SlotPathArgs ==
    {SlotPath(TRUE, USER, "0"), SlotPath(FALSE, USER, "0"), SlotPath(TRUE, USER, "tmp"),
     SlotPath(TRUE, USER, "10"), SlotPath(TRUE, LONG_NAME, "0")}

\* str.isdecimal() and int() of the last component
isdecimal(slot_num_str) == slot_num_str \in {"0", "10"}
int(slot_num_str) == IF slot_num_str = "10" THEN 10 ELSE 0

\* a value in an f-string
fstring(v) == IF v = None THEN "None" ELSE v

\* what a run of stage.py printed on stdout, as its three fields, and the
\* exit code of the run
StageExit(fields, code) ==
    [op |-> "stage.py", status |-> IF code = 0 THEN "ok" ELSE "fail",
     stdout |-> fields, exit |-> code]

\* a run of stage.py is between the return of stage_submit() and its exit
StageRunning(p) == op[p].name = "stage.py" /\ result[p].op # "stage.py"

\* main() of stage.py up to the call of stage_submit(): -t topdir
\* (appdir_ok = FALSE: change_startup_appdir() failed), the checks of
\* slot_path, then stage_submit(username, slot_num)
stage_main(p) ==
    /\ p \in Stagers
    /\ ~StageRunning(p)
    /\ \E appdir_ok \in BOOLEAN, slot_path \in SlotPathArgs :
        LET o == [Op("stage.py", slot_path.username) EXCEPT !.slot = int(slot_path.slot_num_str)]
            exits(fields, code) ==
                /\ Called(p, o)
                /\ result' = [result EXCEPT ![p] = StageExit(fields, code)]
                /\ UNCHANGED <<fsvars, lockvars, pc, stack, loc>>
        IN IF ~appdir_ok THEN exits(<<"exit.3", ".", 0>>, 3)
           ELSE IF ~slot_path.is_dir THEN exits(<<"exit.4", ".", 0>>, 4)
           ELSE IF ~isdecimal(slot_path.slot_num_str) THEN exits(<<"exit.5", ".", 0>>, 5)
           ELSE IF check_slot_num_arg(int(slot_path.slot_num_str)) # None
           THEN /\ exits(<<"exit.6", ".", 0>>, 6)
           ELSE IF check_username_arg(slot_path.username) # None
           THEN /\ exits(<<"exit.7", ".", 0>>, 7)
           ELSE StageSubmit(p, o)

\* main() of stage.py after stage_submit() returned hexdigest, staged_path,
\* unexpected_count: print the three fields and exit; the exit of the
\* process closes its lock files
stage_main_exit(p) ==
    /\ pc[p] = "idle"
    /\ op[p].name = "stage.py"
    /\ result[p].op = "stage_submit"
    /\ LET hexdigest == result[p].sha
           staged_path == result[p].path
           unexpected_count == result[p].count
           fields == <<fstring(hexdigest), fstring(staged_path), unexpected_count>>
       IN result' = [result EXCEPT ![p] =
                        StageExit(fields, IF hexdigest = None \/ staged_path = None
                                          THEN 8 ELSE 0)]
    /\ flock' = [l \in LockPaths |-> flock[l] \ {Handle(p, "singleton"), Handle(p, "local")}]
    /\ ioccc_last_lock_fd' = [ioccc_last_lock_fd EXCEPT ![p] = None]
    /\ ioccc_last_lock_path' = [ioccc_last_lock_path EXCEPT ![p] = None]
    /\ ioccc_last_errmsg' = [ioccc_last_errmsg EXCEPT ![p] = ""]
    /\ UNCHANGED <<fsvars, pc, stack, op, nops, loc>>

\* ------------------------------------------------- the upload into a slot

UploadResult(status) == [NoResult EXCEPT !.op = "upload", !.status = status]

\* update_slot() returned False: the upload route removes the uploaded file
\* and reports the error.  dir is the slot directory left by update_slot().
UploadFail(p, dir) ==
    /\ slotdir' = [slotdir EXCEPT ![op[p].slot] = [dir EXCEPT ![op[p].file] = NoFile]]
    /\ Return(p, UploadResult("fail"))

\* the upload route: file.save(upload_file) into the slot directory, taking no
\* lock, then update_slot(username, slot_num, upload_file), which starts with
\* initialize_user_tree() and its lookup_username()
upload(p) ==
    /\ \E n \in WorkSlots, f \in Names, c \in Contents :
           /\ Begin(p, [Op("upload", USER) EXCEPT !.slot = n, !.file = f])
           /\ slotdir' = [slotdir EXCEPT ![n][f] = c]
    /\ p \in Uploaders
    /\ pwfile' = SeedPwFile(pwfile)
    /\ loc' = [Interrupted(loc, p) EXCEPT ![p].modified = Seeded(pwfile)]
    /\ Call(p, "rp_acquire", "iut_start")
    /\ UNCHANGED <<statefile, slotjson, staged, unexpected, lockvars>>

\* a second worker of the web application, which gets the uploads of empty files
SecondWorkers == {"p2"}

\* the upload route with an empty file: file.save(upload_file) into the slot
\* directory, taking no lock
upload_empty(p) ==
    /\ \E n \in WorkSlots, f \in Names :
           /\ Begin(p, [Op("upload", USER) EXCEPT !.slot = n, !.file = f])
           /\ slotdir' = [slotdir EXCEPT ![n][f] = EMPTY_FILE]
    /\ p \in SecondWorkers
    /\ nops[p] < MaxOthers
    /\ loc' = Interrupted(loc, p)
    /\ Goto(p, "up_size")
    /\ UNCHANGED <<pwfile, statefile, slotjson, staged, unexpected, lockvars, stack>>

\* the upload route: os.path.getsize(upload_file); an empty file is removed
\* and the upload rejected.  When the file is gone, file_length is not bound
\* and the route raises; when another upload has saved a file under the same
\* name in between, the route goes on to update_slot() with that file.
upload_size(p) ==
    /\ pc[p] = "up_size"
    /\ LET n == op[p].slot
           f == op[p].file
       IN IF slotdir[n][f] = NoFile
          THEN /\ Return(p, UploadResult("raised"))
               /\ UNCHANGED <<pwfile, slotdir>>
          ELSE IF getsize(slotdir[n][f]) <= 0
          THEN /\ UploadFail(p, slotdir[n])
               /\ UNCHANGED pwfile
          ELSE /\ pwfile' = SeedPwFile(pwfile)
               /\ loc' = [loc EXCEPT ![p].modified = Seeded(pwfile)]
               /\ Call(p, "rp_acquire", "iut_start")
               /\ UNCHANGED <<slotdir, result>>
    /\ UNCHANGED <<statefile, slotjson, staged, unexpected, lockvars, op, nops>>

FirstSlot == CHOOSE n \in Slots : \A m \in Slots : n <= m

\* what initialize_user_tree() returns to a caller other than update_slot():
\* None, or the list of the slot dictionaries (count is its length)
TreeResult(status, count) ==
    [NoResult EXCEPT !.op = "initialize_user_tree", !.status = status, !.count = count]

\* initialize_user_tree() returns None: to update_slot(), which returns False
\* to the upload route, or to its own caller
TreeFail(p) ==
    IF op[p].name = "upload"
    THEN UploadFail(p, slotdir[op[p].slot])
    ELSE /\ Return(p, TreeResult("fail", 0))
         /\ UNCHANGED slotdir

\* initialize_user_tree(username) called on its own, as the login does: up to
\* its lookup_username()
initialize_user_tree(p) ==
    /\ Begin(p, Op("initialize_user_tree", USER))
    /\ p \in Uploaders
    /\ pwfile' = SeedPwFile(pwfile)
    /\ loc' = [Interrupted(loc, p) EXCEPT ![p].modified = Seeded(pwfile)]
    /\ Call(p, "rp_acquire", "iut_start")
    /\ UNCHANGED <<statefile, slotjson, slotdir, staged, unexpected, lockvars>>

\* initialize_user_tree(): the username was looked up; lock the first slot
initialize_user_tree_start(p) ==
    /\ pc[p] = "iut_start"
    /\ IF ~lookup_username(loc[p].pw, op[p].user)
       THEN /\ TreeFail(p)
            /\ SetLS(p, WithMsg(LS(p), "ERROR: no such username"))
       ELSE /\ loc' = [loc EXCEPT ![p].k = FirstSlot]
            /\ SetLS(p, ioccc_file_lock_prepare(p, LS(p), return_slot_lockfile(op[p].user, FirstSlot)))
            /\ Call(p, "fl_acquire", "iut_locked")
            /\ UNCHANGED <<slotdir, result>>
    /\ UNCHANGED <<pwfile, statefile, slotjson, staged, unexpected, op, nops>>

\* initialize_user_tree(), one round of the loop over the slots: lock_slot()
\* returned; check the slot JSON file or create it from the template, unlock,
\* and lock the next slot.  json.load() of a file that is not JSON raises a
\* JSONDecodeError, which nothing catches: it leaves the function, and the
\* caller, with the slot locked.
initialize_user_tree_slot(p) ==
    /\ pc[p] = "iut_locked"
    /\ LET k == loc[p].k
           slots == Append(loc[p].slots,
                           IF slotjson[k].st = "ok" THEN slotjson[k].d ELSE EmptySlotDict(k))
       IN IF ~loc[p].lock_ok
          THEN /\ TreeFail(p)
               /\ UNCHANGED <<slotjson, lockvars>>
          ELSE IF slotjson[k].st = "bad"
          THEN /\ Return(p, [NoResult EXCEPT !.op = op[p].name, !.status = "raised"])
               /\ UNCHANGED <<slotjson, slotdir, lockvars>>
          ELSE IF slotjson[k].st = "ok" /\ validate_slot_dict_nolock(slotjson[k].d, k) # None
          THEN /\ TreeFail(p)
               /\ SetLS(p, ioccc_file_unlock(p, LS(p)))
               /\ UNCHANGED slotjson
          ELSE /\ slotjson' = IF slotjson[k].st = "ok" THEN slotjson
                              ELSE [slotjson EXCEPT ![k] = SlotOk(EmptySlotDict(k))]
               /\ IF k + 1 \in Slots
                  THEN /\ SetLS(p, ioccc_file_lock_prepare(p, ioccc_file_unlock(p, LS(p)),
                                       return_slot_lockfile(op[p].user, k + 1)))
                       /\ loc' = [loc EXCEPT ![p].k = k + 1,
                                             ![p].slots = slots,
                                             ![p].modified = @ \cup SlotSeeded(k)]
                       /\ Call(p, "fl_acquire", "iut_locked")
                       /\ UNCHANGED result
                  ELSE IF op[p].name = "upload"
                  THEN /\ SetLS(p, ioccc_file_unlock(p, LS(p)))
                       /\ loc' = [loc EXCEPT ![p].slots = slots,
                                             ![p].modified = @ \cup SlotSeeded(k)]
                       /\ Goto(p, "us_hash")
                       /\ UNCHANGED <<stack, result>>
                  ELSE /\ SetLS(p, ioccc_file_unlock(p, LS(p)))
                       /\ Return(p, TreeResult("ok", Len(slots)))
               /\ UNCHANGED slotdir
    /\ UNCHANGED <<pwfile, statefile, staged, unexpected, op, nops>>

\* update_slot() goes to lock_slot() with the submit file not hashed
update_slot_lock_unhashed(p) ==
    /\ pc[p] = "us_hash"
    /\ LET n == op[p].slot
       IN IF slotdir[n][op[p].file] = NoFile
          THEN /\ UploadFail(p, slotdir[n])
               /\ SetLS(p, WithMsg(LS(p), "ERROR: update_slot: failed to open"))
          ELSE /\ SetLS(p, ioccc_file_lock_prepare(p, LS(p), lock_slot_path(op[p])))
               /\ Call(p, "fl_acquire", "us_locked")
               /\ UNCHANGED <<slotdir, result, loc>>
    /\ UNCHANGED <<pwfile, statefile, slotjson, staged, unexpected, op, nops>>

\* update_slot(): hash the uploaded file, then lock the slot
update_slot_hash(p) ==
    /\ pc[p] = "us_hash"
    /\ LET n == op[p].slot
       IN IF slotdir[n][op[p].file] = NoFile
          THEN /\ UploadFail(p, slotdir[n])
               /\ SetLS(p, WithMsg(LS(p), "ERROR: update_slot: failed to open"))
          ELSE /\ loc' = [loc EXCEPT ![p].sha = sha256_file(slotdir[n][op[p].file])]
               /\ SetLS(p, ioccc_file_lock_prepare(p, LS(p), lock_slot_path(op[p])))
               /\ Call(p, "fl_acquire", "us_locked")
               /\ UNCHANGED <<slotdir, result>>
    /\ UNCHANGED <<pwfile, statefile, slotjson, staged, unexpected, op, nops>>

\* update_slot(): lock_slot() returned; read the slot JSON file, remove the
\* file the slot named before, record the new file and write the slot JSON
\* file (ok = FALSE: it could not be opened for writing).  os.path.getsize()
\* of an uploaded file that is gone raises out of update_slot().
update_slot_write(p) ==
    /\ pc[p] = "us_locked"
    /\ LET n == op[p].slot
           f == op[p].file
           d == slotjson[n].d
           dir == IF d.filename # None /\ d.filename # f
                  THEN [slotdir[n] EXCEPT ![d.filename] = NoFile]
                  ELSE slotdir[n]
       IN IF ~loc[p].lock_ok
          THEN /\ UploadFail(p, slotdir[n])
               /\ UNCHANGED <<slotjson, lockvars>>
          ELSE IF slotjson[n].st # "ok"
          THEN /\ UploadFail(p, slotdir[n])
               /\ SetLS(p, ioccc_file_unlock(p, LS(p)))
               /\ UNCHANGED slotjson
          ELSE IF slotdir[n][f] = NoFile
          THEN /\ slotdir' = [slotdir EXCEPT ![n] = dir]
               /\ Return(p, UploadResult("raised"))
               /\ UNCHANGED <<slotjson, lockvars>>
          ELSE \E ok \in BOOLEAN :
                  IF ok
                  THEN /\ slotjson' = [slotjson EXCEPT ![n] = SlotOk(
                              [d EXCEPT !.slot = n,
                                        !.filename = f,
                                        !.length = getsize(slotdir[n][f]),
                                        !.date = UPLOAD_DATE,
                                        !.SHA256 = loc[p].sha,
                                        !.collected = FALSE,
                                        !.status = "file successfully uploaded into slot."])]
                       /\ slotdir' = [slotdir EXCEPT ![n] = dir]
                       /\ SetLS(p, ioccc_file_unlock(p, LS(p)))
                       /\ Return(p, UploadResult("ok"))
                  ELSE /\ UploadFail(p, dir)
                       /\ SetLS(p, ioccc_file_unlock(p,
                              WithMsg(LS(p), "ERROR: failed to write out slot file")))
                       /\ UNCHANGED slotjson
    /\ UNCHANGED <<pwfile, statefile, staged, unexpected, op, nops>>

\* ------------------------------------------------- the status of a slot

\* the tools that change the status of a slot (bin/set_slot_status.py)
Tools == {"p2"}

\* the status string the tools are called with
NEW_STATUS == "submit file received by the judges"

SlotStatusResult(name, status) == [NoResult EXCEPT !.op = name, !.status = status]

\* update_slot_status() and update_slot_status_if_submit(): the username was
\* looked up; lock the slot, and go on at `back`
SlotStatusLock(p, back) ==
    /\ IF ~lookup_username(loc[p].pw, op[p].user)
       THEN /\ Return(p, SlotStatusResult(op[p].name, "fail"))
            /\ UNCHANGED lockvars
       ELSE /\ SetLS(p, ioccc_file_lock_prepare(p, LS(p), lock_slot_path(op[p])))
            /\ Call(p, "fl_acquire", back)
            /\ UNCHANGED <<result, loc>>
    /\ UNCHANGED <<fsvars, op, nops>>

\* write_slot_json_nolock(slot_json_file, d), unlock_slot() and return: True
\* when the file was written, False when it could not be opened for writing
SlotStatusWrite(p, d) ==
    \E ok \in BOOLEAN :
        /\ slotjson' = IF ok THEN [slotjson EXCEPT ![op[p].slot] = SlotOk(d)] ELSE slotjson
        /\ SetLS(p, ioccc_file_unlock(p,
               IF ok THEN LS(p) ELSE WithMsg(LS(p), "ERROR: failed to write out slot file")))
        /\ Return(p, SlotStatusResult(op[p].name, IF ok THEN "ok" ELSE "fail"))

\* update_slot_status(username, slot_num, status, set_collected_to_true) up
\* to its lookup_username()
UpdateSlotStatus(p, usernames, slot_nums) ==
    /\ p \in Tools
    /\ nops[p] < MaxOthers
    /\ \E u \in usernames, n \in slot_nums, c \in BOOLEAN :
           /\ Called(p, [Op("update_slot_status", u) EXCEPT
                            !.slot = n, !.status = NEW_STATUS, !.set_collected_to_true = c])
           /\ IF check_username_arg(u) # None
              THEN Rejected(p, check_username_arg(u))
              ELSE IF check_slot_num_arg(n) # None
              THEN Rejected(p, check_slot_num_arg(n))
              ELSE /\ result' = [result EXCEPT ![p] = NoResult]
                   /\ pwfile' = SeedPwFile(pwfile)
                   /\ loc' = [Interrupted(loc, p) EXCEPT ![p].modified = Seeded(pwfile)]
                   /\ Call(p, "rp_acquire", "uss_lock")
                   /\ UNCHANGED <<statefile, slotjson, slotdir, staged, unexpected, lockvars>>

update_slot_status(p) == UpdateSlotStatus(p, {USER}, WorkSlots)

\* update_slot_status() called from outside, with any arguments (the slot
\* store holds the slots of USER only, so that no other username that passes
\* the firewall is among them)
update_slot_status_any(p) == UpdateSlotStatus(p, UsernameArgs \ {NEWLINE_NAME}, SlotNumArgs)

update_slot_status_lock(p) ==
    /\ pc[p] = "uss_lock"
    /\ SlotStatusLock(p, "uss_locked")

\* update_slot_status() writes the status into a dictionary made from the
\* template of an empty slot
update_slot_status_from_template(p) ==
    /\ pc[p] = "uss_locked"
    /\ LET n == op[p].slot
       IN IF ~loc[p].lock_ok
          THEN /\ Return(p, SlotStatusResult(op[p].name, "fail"))
               /\ UNCHANGED <<slotjson, lockvars>>
          ELSE IF slotjson[n].st # "ok"
          THEN /\ Return(p, SlotStatusResult(op[p].name, "fail"))
               /\ SetLS(p, ioccc_file_unlock(p,
                      WithMsg(LS(p), "ERROR: read_json_file_nolock failed")))
               /\ UNCHANGED slotjson
          ELSE SlotStatusWrite(p, [EmptySlotDict(n) EXCEPT
                   !.status = op[p].status,
                   !.collected = op[p].set_collected_to_true])
    /\ UNCHANGED <<pwfile, statefile, slotdir, staged, unexpected, op, nops>>

\* update_slot_status(): lock_slot() returned; read the slot JSON file, set
\* the status, and collected if asked to, write the file, unlock
update_slot_status_write(p) ==
    /\ pc[p] = "uss_locked"
    /\ LET n == op[p].slot
           d == slotjson[n].d
       IN IF ~loc[p].lock_ok
          THEN /\ Return(p, SlotStatusResult(op[p].name, "fail"))
               /\ UNCHANGED <<slotjson, lockvars>>
          ELSE IF slotjson[n].st # "ok"
          THEN /\ Return(p, SlotStatusResult(op[p].name, "fail"))
               /\ SetLS(p, ioccc_file_unlock(p,
                      WithMsg(LS(p), "ERROR: read_json_file_nolock failed")))
               /\ UNCHANGED slotjson
          ELSE SlotStatusWrite(p, [d EXCEPT
                   !.status = op[p].status,
                   !.collected = IF op[p].set_collected_to_true THEN TRUE ELSE @])
    /\ UNCHANGED <<pwfile, statefile, slotdir, staged, unexpected, op, nops>>

\* update_slot_status_if_submit(): the slot names another file than submit_file
SubmitFileAlwaysCurrent(submit_file, d) == FALSE
SubmitFileReplaced(submit_file, d) == submit_file # d.filename

\* update_slot_status_if_submit(username, slot_num, status, submit_file) up
\* to its lookup_username()
update_slot_status_if_submit(p) ==
    /\ \E n \in WorkSlots, f \in Names :
           Begin(p, [Op("update_slot_status_if_submit", USER) EXCEPT
                        !.slot = n, !.status = NEW_STATUS, !.file = f])
    /\ p \in Tools
    /\ nops[p] < MaxOthers
    /\ pwfile' = SeedPwFile(pwfile)
    /\ loc' = [Interrupted(loc, p) EXCEPT ![p].modified = Seeded(pwfile)]
    /\ Call(p, "rp_acquire", "ussi_lock")
    /\ UNCHANGED <<statefile, slotjson, slotdir, staged, unexpected, lockvars>>

update_slot_status_if_submit_lock(p) ==
    /\ pc[p] = "ussi_lock"
    /\ SlotStatusLock(p, "ussi_locked")

\* update_slot_status_if_submit(): lock_slot() returned; read the slot JSON
\* file; when it names another file than submit_file, unlock and return True;
\* otherwise set the status, write the file, unlock
update_slot_status_if_submit_write(p) ==
    /\ pc[p] = "ussi_locked"
    /\ LET n == op[p].slot
           d == slotjson[n].d
       IN IF ~loc[p].lock_ok
          THEN /\ Return(p, SlotStatusResult(op[p].name, "fail"))
               /\ UNCHANGED <<slotjson, lockvars>>
          ELSE IF slotjson[n].st # "ok"
          THEN /\ Return(p, SlotStatusResult(op[p].name, "fail"))
               /\ SetLS(p, ioccc_file_unlock(p,
                      WithMsg(LS(p), "ERROR: read_json_file_nolock failed")))
               /\ UNCHANGED slotjson
          ELSE IF SubmitFileReplaced(op[p].file, d)
          THEN /\ Return(p, SlotStatusResult(op[p].name, "ok"))
               /\ SetLS(p, ioccc_file_unlock(p, LS(p)))
               /\ UNCHANGED slotjson
          ELSE SlotStatusWrite(p, [d EXCEPT !.status = op[p].status])
    /\ UNCHANGED <<pwfile, statefile, slotdir, staged, unexpected, op, nops>>

\* ------------------------------------------- the slot pipeline as a system

TypeOK ==
    /\ flock \in [LockPaths -> SUBSET (Procs \X {"singleton", "local"})]
    /\ pc \in [Procs -> STRING]
    /\ nops \in [Procs -> 0..MaxOps]

Init ==
    /\ flock = [l \in LockPaths |-> {}]
    /\ pwfile = PwOk(INIT_PW_FILE)
    /\ statefile = StateOk(INIT_STATE_FILE)
    /\ slotjson = [n \in Slots |-> SlotMissing]
    /\ slotdir = [n \in Slots |-> EmptyDir]
    /\ staged = EmptyDir
    /\ unexpected = EmptyDir
    /\ pc = [p \in Procs |-> "idle"]
    /\ stack = [p \in Procs |-> <<>>]
    /\ op = [p \in Procs |-> NoOp]
    /\ nops = [p \in Procs |-> 0]
    /\ result = [p \in Procs |-> NoResult]
    /\ loc = [p \in Procs |-> LocInit]
    /\ ioccc_last_lock_fd = [p \in Procs |-> None]
    /\ ioccc_last_lock_path = [p \in Procs |-> None]
    /\ ioccc_last_errmsg = [p \in Procs |-> ""]

Next ==
    \E p \in Procs :
        \/ ioccc_file_lock_acquire(p)
        \/ read_pwfile_acquire(p)
        \/ read_pwfile_read(p)
        \/ stage_submit(p)
        \/ stage_lock_slot(p)
        \/ stage_get_slot_dict(p)
        \/ stage_validate(p)
        \/ stage_replace(p)
        \/ stage_return(p)
        \/ upload(p)
        \/ initialize_user_tree_start(p)
        \/ initialize_user_tree_slot(p)
        \/ update_slot_hash(p)
        \/ update_slot_write(p)

Spec == Init /\ [][Next]_vars

\* uploads by the web application and runs of bin/stage.py
NextStageCli ==
    \E p \in Procs :
        \/ ioccc_file_lock_acquire(p)
        \/ read_pwfile_acquire(p)
        \/ read_pwfile_read(p)
        \/ stage_main(p)
        \/ stage_lock_slot(p)
        \/ stage_get_slot_dict(p)
        \/ stage_validate(p)
        \/ stage_replace(p)
        \/ stage_return(p)
        \/ stage_main_exit(p)
        \/ upload(p)
        \/ initialize_user_tree_start(p)
        \/ initialize_user_tree_slot(p)
        \/ update_slot_hash(p)
        \/ update_slot_write(p)

SpecStageCli == Init /\ [][NextStageCli]_vars

\* -------------------------------------------- the slot store as a system

\* the user has logged in before or not; the JSON file of a slot that is not
\* worked on exists or not, or a write that failed has cut it short
InitSlot ==
    /\ flock = [l \in LockPaths |-> {}]
    /\ pwfile = PwOk(INIT_PW_FILE)
    /\ statefile = StateOk(INIT_STATE_FILE)
    /\ slotjson \in {sj \in [Slots -> {SlotMissing, SlotBad}] :
                         \A n \in WorkSlots : sj[n] = SlotMissing}
    /\ slotdir = [n \in Slots |-> EmptyDir]
    /\ staged = EmptyDir
    /\ unexpected = EmptyDir
    /\ pc = [p \in Procs |-> "idle"]
    /\ stack = [p \in Procs |-> <<>>]
    /\ op = [p \in Procs |-> NoOp]
    /\ nops = [p \in Procs |-> 0]
    /\ result = [p \in Procs |-> NoResult]
    /\ loc = [p \in Procs |-> LocInit]
    /\ ioccc_last_lock_fd = [p \in Procs |-> None]
    /\ ioccc_last_lock_path = [p \in Procs |-> None]
    /\ ioccc_last_errmsg = [p \in Procs |-> ""]

NextSlot ==
    \E p \in Procs :
        \/ ioccc_file_lock_acquire(p)
        \/ read_pwfile_acquire(p)
        \/ read_pwfile_read(p)
        \/ upload(p)
        \/ initialize_user_tree(p)
        \/ initialize_user_tree_start(p)
        \/ initialize_user_tree_slot(p)
        \/ update_slot_hash(p)
        \/ update_slot_write(p)
        \/ update_slot_status(p)
        \/ update_slot_status_lock(p)
        \/ update_slot_status_write(p)
        \/ update_slot_status_if_submit(p)
        \/ update_slot_status_if_submit_lock(p)
        \/ update_slot_status_if_submit_write(p)

SpecSlot == InitSlot /\ [][NextSlot]_vars

\* two workers of the web application that take uploads into the same slot
NextUpload ==
    \E p \in Procs :
        \/ ioccc_file_lock_acquire(p)
        \/ read_pwfile_acquire(p)
        \/ read_pwfile_read(p)
        \/ upload(p)
        \/ upload_empty(p)
        \/ upload_size(p)
        \/ initialize_user_tree_start(p)
        \/ initialize_user_tree_slot(p)
        \/ update_slot_hash(p)
        \/ update_slot_write(p)

SpecUpload == Init /\ [][NextUpload]_vars

\* ------------------------------------------------------- the record codec

\* The JSON text of a slot file, as the tokens that json.dumps() writes for the
\* values of the keys.  (The slot store above keeps a slot JSON file as the
\* dictionary that read_json_file_nolock() returns for it; here the file
\* holds the text.)
JsonNull == [kind |-> "null", str |-> "", num |-> 0]
JsonString(x) == [kind |-> "string", str |-> x, num |-> 0]
JsonBool(b) == [kind |-> IF b THEN "true" ELSE "false", str |-> "", num |-> 0]
JsonNumberOrNullIfZero(i) == IF i = 0 THEN JsonNull ELSE [kind |-> "number", str |-> "", num |-> i]
JsonNumber(i) == [kind |-> "number", str |-> "", num |-> i]

\* json.dumps(slot_json, ensure_ascii=True, indent=4)
json_dumps(d) ==
    [no_comment |-> JsonString(d.no_comment),
     slot_JSON_format_version |-> JsonString(d.slot_JSON_format_version),
     slot |-> JsonNumber(d.slot),
     filename |-> IF d.filename = None THEN JsonNull ELSE JsonString(d.filename),
     length |-> IF d.length = NullLength THEN JsonNull ELSE JsonNumber(d.length),
     date |-> IF d.date = None THEN JsonNull ELSE JsonString(d.date),
     SHA256 |-> IF d.SHA256 = None THEN JsonNull ELSE JsonString(d.SHA256),
     collected |-> JsonBool(d.collected),
     status |-> JsonString(d.status)]

\* json.load(j_fp): the value of a token
JsonLoadString(t) == IF t.kind = "null" THEN None ELSE t.str
JsonLoadInt(t) == IF t.kind = "null" THEN NullLength ELSE t.num
JsonLoadBool(t) == t.kind = "true"

json_load(text) ==
    [no_comment |-> JsonLoadString(text.no_comment),
     slot_JSON_format_version |-> JsonLoadString(text.slot_JSON_format_version),
     slot |-> JsonLoadInt(text.slot),
     filename |-> JsonLoadString(text.filename),
     length |-> JsonLoadInt(text.length),
     date |-> JsonLoadString(text.date),
     SHA256 |-> JsonLoadString(text.SHA256),
     collected |-> JsonLoadBool(text.collected),
     status |-> JsonLoadString(text.status)]

SlotText(text) == [st |-> "text", d |-> text]

\* the slot dictionaries the codec is exercised with, for slot slot_num
SlotDicts(slot_num) ==
    {[EmptySlotDict(slot_num) EXCEPT
          !.filename = f, !.length = l, !.date = t, !.SHA256 = h, !.collected = c] :
        f \in {None, "submit.alice-0.1700000001.txz"},
        l \in {NullLength, 0, getsize("c1")},
        t \in {None, UPLOAD_DATE},
        h \in {None, sha256_file("c1")},
        c \in BOOLEAN}

\* the process that holds the slot lock while it writes and reads the file
Writers == {"p1"}

CodecResult(name, status) == [NoResult EXCEPT !.op = name, !.status = status]

\* write_slot_json_nolock(slot_json_file, slot_json): True when the file was
\* written, False when it could not be opened for writing
write_slot_json_nolock(p) ==
    /\ p \in Writers
    /\ pc[p] = "idle"
    /\ nops["p1"] + nops["p2"] < MaxOps
    /\ nops' = [nops EXCEPT ![p] = @ + 1]
    /\ \E n \in WorkSlots, ok \in BOOLEAN :
         \E d \in SlotDicts(n) :
           /\ op' = [op EXCEPT ![p] = [Op("write_slot_json_nolock", USER) EXCEPT !.slot = n]]
           /\ IF ok
              THEN /\ slotjson' = [slotjson EXCEPT ![n] = SlotText(json_dumps(d))]
                   /\ loc' = [loc EXCEPT ![p].slot_dict = d]
                   /\ result' = [result EXCEPT ![p] = NoResult]
                   /\ Goto(p, "rj_read")
                   /\ UNCHANGED ioccc_last_errmsg
              ELSE /\ ioccc_last_errmsg' =
                          [ioccc_last_errmsg EXCEPT ![p] = "ERROR: failed to write out slot file"]
                   /\ result' = [result EXCEPT ![p] =
                                     CodecResult("write_slot_json_nolock", "fail")]
                   /\ UNCHANGED <<slotjson, loc, pc>>
    /\ UNCHANGED <<pwfile, statefile, slotdir, staged, unexpected, stack,
                   flock, ioccc_last_lock_fd, ioccc_last_lock_path>>

\* read_json_file_nolock(json_file): the dictionary of the JSON file
read_json_file_nolock(p) ==
    /\ pc[p] = "rj_read"
    /\ loc' = [loc EXCEPT ![p].read = json_load(slotjson[op[p].slot].d)]
    /\ Goto(p, "rj_validate")
    /\ UNCHANGED <<fsvars, lockvars, stack, op, nops, result>>

\* validate_slot_dict_nolock(slot_dict, username, slot_num) of what was read
validate_slot_dict(p) ==
    /\ pc[p] = "rj_validate"
    /\ Return(p, CodecResult("validate_slot_dict_nolock",
                  IF validate_slot_dict_nolock(loc[p].read, op[p].slot) = None
                  THEN "ok" ELSE "fail"))
    /\ UNCHANGED <<fsvars, lockvars, op, nops>>

\* the slot dictionaries validate_slot_dict_nolock() is called with for slot
\* slot_num: another version, another slot number, a filename of another
\* user, a negative length, an empty date and an empty SHA256 among them
ValidateDicts(slot_num) ==
    {[EmptySlotDict(slot_num) EXCEPT
          !.slot_JSON_format_version = v, !.slot = n, !.filename = f, !.length = l,
          !.date = t, !.SHA256 = h, !.collected = c] :
        v \in {SLOT_VERSION_VALUE, "1.1 2024-12-22"},
        n \in Slots,
        f \in {None, "submit.alice-0.1700000001.txz", "submit.bob-0.1700000001.txz"},
        l \in {NullLength, 0, -5},
        t \in {None, "", UPLOAD_DATE},
        h \in {None, "", sha256_file("c1")},
        c \in BOOLEAN}

\* a call of validate_slot_dict_nolock(slot_dict, username, slot_num): op
\* keeps the arguments (file the dictionary), the result is "ok" for None
\* and "fail" for an error string
validate_slot_dict_nolock_call(p) ==
    /\ p \in Writers
    /\ nops[p] <= MaxOthers
    /\ \E n \in WorkSlots :
         \E d \in ValidateDicts(n) :
           /\ Called(p, [Op("validate_slot_dict_nolock", USER) EXCEPT !.slot = n, !.file = d])
           /\ result' = [result EXCEPT ![p] =
                  CodecResult("validate_slot_dict_nolock",
                              IF validate_slot_dict_nolock(d, n) = None THEN "ok" ELSE "fail")]
    /\ UNCHANGED <<fsvars, lockvars, pc, stack, loc>>

NextValidate == \E p \in Procs : validate_slot_dict_nolock_call(p)

SpecValidate == Init /\ [][NextValidate]_vars

NextCodec ==
    \E p \in Procs :
        \/ write_slot_json_nolock(p)
        \/ read_json_file_nolock(p)
        \/ validate_slot_dict(p)

SpecCodec == Init /\ [][NextCodec]_vars

\* ------------------------------------------- the password and state stores

\* the usernames the password operations are called with, and the new hash
Users == {USER, "bob"}
NEW_PWHASH == "h1"

PwBad == [st |-> "bad", users |-> <<>>]

PwResult(name, status) == [NoResult EXCEPT !.op = name, !.status = status]

\* the list update_username() writes: the user's record updated, or appended
AppendedUser(users, username, pwhash) ==
    Append(users, UserRecord(username, pwhash))
UpdatedUsers(users, username, pwhash) ==
    IF \E i \in 1..Len(users) : users[i].username = username
    THEN [i \in 1..Len(users) |->
             IF users[i].username = username THEN [users[i] EXCEPT !.pwhash = pwhash]
             ELSE users[i]]
    ELSE Append(users, UserRecord(username, pwhash))

\* update_username() assigns the email argument to the user's record, or
\* appends the new record with it
SetEmail(users, username, email) ==
    [i \in 1..Len(users) |->
        IF users[i].username = username THEN [users[i] EXCEPT !.email = email]
        ELSE users[i]]

\* the list delete_username() writes: the other users
OtherUsers(users, username) == SelectSeq(users, LAMBDA u : u.username # username)

\* open(PW_FILE, "w") truncated the file, and the JSON of users is written at
\* offset 0 when the file is closed.  If nobody wrote the file in between, it
\* now holds users.  If it was seeded again in between (the copy goes into the
\* same file), a text as long as the seeded one replaces it and a shorter one
\* leaves the tail of the seeded text behind, which is not JSON.
RewritePwFile(f, users) ==
    IF f.st = "empty" THEN PwOk(users)
    ELSE IF f.st = "ok" /\ Len(users) >= Len(f.users) THEN PwOk(users)
    ELSE PwBad

\* update_username(username, pwhash, ...) up to the lock of the password file
UpdateUsername(p, usernames) ==
    \E u \in usernames :
        /\ Called(p, [Op("update_username", u) EXCEPT !.pwhash = NEW_PWHASH])
        /\ IF check_username_arg(u) # None
           THEN Rejected(p, check_username_arg(u))
           ELSE /\ result' = [result EXCEPT ![p] = NoResult]
                /\ loc' = [loc EXCEPT ![p].again =
                               /\ op[p] = [Op("update_username", u) EXCEPT !.pwhash = NEW_PWHASH]
                               /\ result[p] = PwResult("update_username", "ok")]
                /\ SetLS(p, ioccc_file_lock_prepare(p, LS(p), PW_LOCK))
                /\ Call(p, "fl_acquire", "uu_locked")
                /\ UNCHANGED fsvars

update_username(p) == UpdateUsername(p, Users)

\* update_username() called from outside, with any username
update_username_any(p) == p \in Callers /\ UpdateUsername(p, UsernameArgs)

\* update_username(): ioccc_file_lock() returned; seed and load the password
\* file, update the list and open the file for writing.  A file that is not
\* JSON, or an empty list (the unbound name errcode), raises with the lock held.
update_username_load(p) ==
    /\ pc[p] = "uu_locked"
    /\ LET f == SeedPwFile(pwfile)
       IN IF ~loc[p].lock_ok
          THEN /\ Return(p, PwResult("update_username", "fail"))
               /\ UNCHANGED pwfile
          ELSE IF f.st = "bad" \/ f.users = <<>>
          THEN /\ Return(p, PwResult("update_username", "raised"))
               /\ UNCHANGED pwfile
          ELSE /\ pwfile' = PwEmpty
               /\ loc' = [loc EXCEPT ![p].pw = [ok |-> TRUE,
                              users |-> SetEmail(UpdatedUsers(f.users, op[p].user, op[p].pwhash),
                                                op[p].user, op[p].email)],
                                     ![p].modified = {"pw"},
                                     ![p].before = f.users]
               /\ Goto(p, "uu_write")
               /\ UNCHANGED <<stack, result>>
    /\ UNCHANGED <<statefile, slotjson, slotdir, staged, unexpected, lockvars, op, nops>>

\* update_username(): write the list, close the file, unlock, return True
update_username_write(p) ==
    /\ pc[p] = "uu_write"
    /\ pwfile' = RewritePwFile(pwfile, loc[p].pw.users)
    /\ SetLS(p, ioccc_file_unlock(p, LS(p)))
    /\ Return(p, PwResult("update_username", "ok"))
    /\ UNCHANGED <<statefile, slotjson, slotdir, staged, unexpected, op, nops>>

\* delete_username(username) up to the lock of the password file
DeleteUsername(p, usernames) ==
    \E u \in usernames :
        /\ Called(p, Op("delete_username", u))
        /\ IF check_username_arg(u) # None
           THEN Rejected(p, check_username_arg(u))
           ELSE /\ result' = [result EXCEPT ![p] = NoResult]
                /\ SetLS(p, ioccc_file_lock_prepare(p, LS(p), PW_LOCK))
                /\ Call(p, "fl_acquire", "du_locked")
                /\ UNCHANGED <<fsvars, loc>>

delete_username(p) == DeleteUsername(p, Users)

\* delete_username() called from outside, with any username
delete_username_any(p) == p \in Callers /\ DeleteUsername(p, UsernameArgs)

\* delete_username(): ioccc_file_lock() returned; seed and load the password
\* file, set the user aside and open the file for writing.  When there is no
\* such user the function returns None as it is, without ioccc_file_unlock().
delete_username_load(p) ==
    /\ pc[p] = "du_locked"
    /\ LET f == SeedPwFile(pwfile)
       IN IF ~loc[p].lock_ok
          THEN /\ Return(p, PwResult("delete_username", "fail"))
               /\ UNCHANGED <<pwfile, lockvars>>
          ELSE IF f.st = "bad" \/ f.users = <<>>
          THEN /\ Return(p, PwResult("delete_username", "raised"))
               /\ UNCHANGED <<pwfile, lockvars>>
          ELSE IF ~\E i \in 1..Len(f.users) : f.users[i].username = op[p].user
          THEN /\ pwfile' = f
               /\ SetLS(p, WithMsg(LS(p), "ERROR: delete_username: no such user to delete"))
               /\ Return(p, PwResult("delete_username", "fail"))
          ELSE /\ pwfile' = PwEmpty
               /\ loc' = [loc EXCEPT ![p].pw = [ok |-> TRUE,
                                                users |-> OtherUsers(f.users, op[p].user)],
                                     ![p].modified = {"pw"},
                                     ![p].before = f.users]
               /\ Goto(p, "du_write")
               /\ UNCHANGED <<stack, result, lockvars>>
    /\ UNCHANGED <<statefile, slotjson, slotdir, staged, unexpected, op, nops>>

\* delete_username(): write the list, close the file, unlock, return the user
delete_username_write(p) ==
    /\ pc[p] = "du_write"
    /\ pwfile' = RewritePwFile(pwfile, loc[p].pw.users)
    /\ SetLS(p, ioccc_file_unlock(p, LS(p)))
    /\ Return(p, PwResult("delete_username", "ok"))
    /\ UNCHANGED <<statefile, slotjson, slotdir, staged, unexpected, op, nops>>

\* copy_pwfile_under_lock(newfile) up to the lock of the password file
copy_pwfile_under_lock(p) ==
    /\ Begin(p, Op("copy_pwfile_under_lock", None))
    /\ SetLS(p, ioccc_file_lock_prepare(p, LS(p), PW_LOCK))
    /\ Call(p, "fl_acquire", "cp_locked")
    /\ UNCHANGED <<fsvars, loc>>

\* copy_pwfile_under_lock(): ioccc_file_lock() returned; shutil.copy2() the
\* password file as it is to newfile (a missing file is the OSError path),
\* unlock, return True.  newfile is kept with the result of the call.
copy_pwfile_copy(p) ==
    /\ pc[p] = "cp_locked"
    /\ IF ~loc[p].lock_ok
       THEN /\ Return(p, PwResult("copy_pwfile_under_lock", "fail"))
            /\ UNCHANGED lockvars
       ELSE IF pwfile.st = "missing"
       THEN /\ Return(p, PwResult("copy_pwfile_under_lock", "fail"))
            /\ SetLS(p, ioccc_file_unlock(p,
                   WithMsg(LS(p), "ERROR: copy_pwfile_under_lock: cannot cp -p")))
       ELSE /\ Return(p, [PwResult("copy_pwfile_under_lock", "ok") EXCEPT !.newfile = pwfile])
            /\ SetLS(p, ioccc_file_unlock(p, LS(p)))
    /\ UNCHANGED <<fsvars, op, nops>>

\* lookup_username(username) up to the lock that read_pwfile() takes:
\* read_pwfile() seeds a missing or empty password file before it locks
LookupUsername(p, usernames) ==
    \E u \in usernames :
        /\ Called(p, Op("lookup_username", u))
        /\ IF check_username_arg(u) # None
           THEN Rejected(p, check_username_arg(u))
           ELSE /\ result' = [result EXCEPT ![p] = NoResult]
                /\ pwfile' = SeedPwFile(pwfile)
                /\ loc' = [loc EXCEPT ![p].modified = Seeded(pwfile)]
                /\ Call(p, "rp_acquire", "lu_done")
                /\ UNCHANGED <<statefile, slotjson, slotdir, staged, unexpected, lockvars>>

lookup_username_call(p) == LookupUsername(p, Users)

\* lookup_username() called from outside, with any username
lookup_username_any(p) == p \in Callers /\ LookupUsername(p, UsernameArgs)

\* lookup_username(): read_pwfile() returned; return the user's record or None
lookup_username_return(p) ==
    /\ pc[p] = "lu_done"
    /\ Return(p, PwResult("lookup_username",
                          IF lookup_username(loc[p].pw, op[p].user) THEN "ok" ELSE "fail"))
    /\ UNCHANGED <<fsvars, lockvars, op, nops>>

\* ------------------------------------------------------ bin/ioccc_passwd.py

\* the registration addresses given with -e
Emails == {"a@example.org", "b@example.org"}

\* lookup_username_by_email() after read_pwfile() returned: the username of the
\* first record with the email, None if there is none or the file was not read
lookup_username_by_email(pw, email) ==
    IF pw.ok /\ \E i \in 1..Len(pw.users) : pw.users[i].email = email
    THEN pw.users[CHOOSE i \in 1..Len(pw.users) :
                      /\ pw.users[i].email = email
                      /\ \A j \in 1..(i - 1) : pw.users[j].email # email].username
    ELSE None

\* ioccc_passwd.py -a user -e email -p password, or -u user -e email
\* -p password: the -e processing calls lookup_username_by_email(), which calls
\* read_pwfile(), which seeds a missing or empty password file before it locks
passwd_main(p) ==
    \E mode \in {"ioccc_passwd.py -a", "ioccc_passwd.py -u"}, u \in Users, e \in Emails :
        /\ (p \in Tools => nops[p] < MaxOthers)
        /\ Begin(p, [Op(mode, u) EXCEPT !.pwhash = NEW_PWHASH, !.email = e])
        /\ pwfile' = SeedPwFile(pwfile)
        /\ loc' = [loc EXCEPT ![p].modified = Seeded(pwfile)]
        /\ Call(p, "rp_acquire", "pm_scanned")
        /\ UNCHANGED <<statefile, slotjson, slotdir, staged, unexpected, lockvars>>

\* lookup_username_by_email() returned.  -a exits with 15 if the address is in
\* use; otherwise the command calls lookup_username(username)
passwd_scanned(p) ==
    /\ pc[p] = "pm_scanned"
    /\ LET username_with_email == lookup_username_by_email(loc[p].pw, op[p].email)
       IN IF op[p].name = "ioccc_passwd.py -a" /\ username_with_email # None
          THEN /\ Return(p, PwResult(op[p].name, "exit.15"))
               /\ UNCHANGED pwfile
          ELSE /\ pwfile' = SeedPwFile(pwfile)
               /\ loc' = [loc EXCEPT ![p].username_with_email = username_with_email,
                                     ![p].modified = @ \cup Seeded(pwfile)]
               /\ Call(p, "rp_acquire", "pm_looked")
               /\ UNCHANGED result
    /\ UNCHANGED <<statefile, slotjson, slotdir, staged, unexpected, lockvars, op, nops>>

\* the exit code of the checks that precede update_username(), None if the
\* command goes on
PasswdExit(mode, username, user_exists, username_with_email) ==
    IF mode = "ioccc_passwd.py -a"
    THEN IF user_exists THEN "exit.17" ELSE None
    ELSE IF user_exists
         THEN IF username_with_email # None /\ username_with_email # username
              THEN "exit.21" ELSE None
         ELSE IF username_with_email # None THEN "exit.22" ELSE None

\* lookup_username() returned: the command exits, or calls update_username(),
\* which locks the password file
passwd_looked(p) ==
    /\ pc[p] = "pm_looked"
    /\ LET code == PasswdExit(op[p].name, op[p].user,
                              lookup_username(loc[p].pw, op[p].user),
                              loc[p].username_with_email)
       IN IF code # None
          THEN /\ Return(p, PwResult(op[p].name, code))
               /\ UNCHANGED lockvars
          ELSE /\ loc' = [loc EXCEPT ![p].again = FALSE]
               /\ SetLS(p, ioccc_file_lock_prepare(p, LS(p), PW_LOCK))
               /\ Call(p, "fl_acquire", "uu_locked")
               /\ UNCHANGED result
    /\ UNCHANGED <<fsvars, op, nops>>

NextPasswd ==
    \E p \in Procs :
        \/ passwd_main(p)
        \/ passwd_scanned(p)
        \/ passwd_looked(p)
        \/ read_pwfile_acquire(p)
        \/ read_pwfile_read(p)
        \/ ioccc_file_lock_acquire(p)
        \/ update_username_load(p)
        \/ update_username_write(p)

\* what read_state() and update_state() return
StateResult(name, status) == [NoResult EXCEPT !.op = name, !.status = status]

\* read_state() up to the lock of the state file
read_state(p) ==
    /\ Begin(p, Op("read_state", None))
    /\ SetLS(p, ioccc_file_lock_prepare(p, LS(p), STATE_FILE_LOCK))
    /\ Call(p, "fl_acquire", "rs_locked")
    /\ UNCHANGED <<fsvars, loc>>

\* read_state(): ioccc_file_lock() returned; seed a missing or empty state
\* file, read it, unlock, check the document and parse the dates; return the
\* two datetimes, or (None, None) with the last error message set.  After a
\* wrong state_JSON_format_version the function calls unlock_slot(), with no
\* lock left to unlock.
read_state_load(p) ==
    /\ pc[p] = "rs_locked"
    /\ IF ~loc[p].lock_ok
       THEN /\ Return(p, StateResult("read_state", "fail"))
            /\ UNCHANGED <<statefile, lockvars>>
       ELSE LET f == SeedStateFile(statefile)
                unlocked == ioccc_file_unlock(p, LS(p))
            IN /\ statefile' = f
               /\ IF StateError(f) = None
                  THEN /\ SetLS(p, unlocked)
                       /\ Return(p, [StateResult("read_state", "ok") EXCEPT
                                        !.open_datetime = strptime(f.d.open_date),
                                        !.close_datetime = strptime(f.d.close_date)])
                  ELSE /\ Return(p, StateResult("read_state", "fail"))
                       /\ IF /\ f.st = "ok"
                             /\ f.d.no_comment = NO_COMMENT_VALUE
                             /\ f.d.state_JSON_format_version # STATE_VERSION_VALUE
                          THEN SetLS(p, ioccc_file_unlock(p, WithMsg(unlocked, StateError(f))))
                          ELSE SetLS(p, WithMsg(unlocked, StateError(f)))
    /\ UNCHANGED <<pwfile, slotjson, slotdir, staged, unexpected, op, nops>>

\* the date strings update_state() is called with
OpenDateArgs == {OPEN_DATE_SHORT, OPEN_DATE_LATER, NOT_A_DATE}
CloseDateArgs == {CLOSE_DATE, NOT_A_DATE}

\* update_state(open_date, close_date) up to the lock of the state file: both
\* dates must parse in DATETIME_USEC_FORMAT
update_state(p) ==
    /\ p \in Callers
    /\ \E open_date \in OpenDateArgs, close_date \in CloseDateArgs :
           /\ Called(p, [Op("update_state", None) EXCEPT
                            !.file = open_date, !.status = close_date])
           /\ IF strptime(open_date) = NoDatetime
              THEN Rejected(p, "ERROR: update_state: open_date arg not in proper datetime format")
              ELSE IF strptime(close_date) = NoDatetime
              THEN Rejected(p, "ERROR: update_state: state file close_date is not in proper datetime format")
              ELSE /\ result' = [result EXCEPT ![p] = NoResult]
                   /\ SetLS(p, ioccc_file_lock_prepare(p, LS(p), STATE_FILE_LOCK))
                   /\ Call(p, "fl_acquire", "ust_locked")
                   /\ UNCHANGED <<fsvars, loc>>

\* what a write of the state file that fails leaves: the file as it was (it
\* could not be opened for writing), or the file truncated, with or without
\* a part of the document
UpdateStateFailed(f) == {f, StateEmpty, StateBad}

\* update_state(): ioccc_file_lock() returned; write the document with the
\* two date strings into the state file, unlock, return whether it was
\* written
update_state_write(p) ==
    /\ pc[p] = "ust_locked"
    /\ IF ~loc[p].lock_ok
       THEN /\ Return(p, StateResult("update_state", "fail"))
            /\ UNCHANGED <<statefile, lockvars>>
       ELSE \E ok \in BOOLEAN :
               /\ IF ok
                  THEN statefile' = StateOk(StateDict(STATE_VERSION_VALUE, op[p].file, op[p].status))
                  ELSE statefile' \in UpdateStateFailed(statefile)
               /\ SetLS(p, ioccc_file_unlock(p,
                      IF ok THEN LS(p)
                      ELSE WithMsg(LS(p), "ERROR: update_state: cannot write state file")))
               /\ Return(p, StateResult("update_state", IF ok THEN "ok" ELSE "fail"))
    /\ UNCHANGED <<pwfile, slotjson, slotdir, staged, unexpected, op, nops>>

\* ------------------------------------------------------ the contest window

\* the user information that lookup_username() hands to the routes, as far
\* as contest_open_close() looks at it
UserDict(username, ignore_date) ==
    [no_comment |-> NO_COMMENT_VALUE,
     iocccpasswd_format_version |-> PASSWORD_VERSION_VALUE,
     username |-> username,
     pwhash |-> "h0",
     ignore_date |-> ignore_date]

\* a user who may ignore the date, one who may not, and a record of an older
\* password file format for a user who may ignore the date
UserDictArgs ==
    {UserDict(USER, TRUE), UserDict(USER, FALSE),
     [UserDict(USER, TRUE) EXCEPT !.iocccpasswd_format_version = "1.2 2025-01-26"]}

validate_user_dict_nolock(user_dict) ==
    /\ check_username_arg(user_dict.username) = None
    /\ user_dict.no_comment = NO_COMMENT_VALUE
    /\ user_dict.iocccpasswd_format_version = PASSWORD_VERSION_VALUE
    /\ user_dict.ignore_date \in BOOLEAN

\* the open and close dates handed to contest_open_close(): what read_state()
\* returns, None (NoDatetime) included; and the readings of the clock
DatetimeArgs == {NoDatetime, 1, 2, 3}
Clock == 0 .. 4

\* the contest is still open at the close date
ContestWindowClosedEnd(open_datetime, close_datetime, now) ==
    IF now < open_datetime THEN <<TRUE, FALSE, FALSE>>
    ELSE IF now > close_datetime THEN <<FALSE, FALSE, TRUE>>
    ELSE <<FALSE, TRUE, FALSE>>

\* the three answers are computed each from its own comparison
ContestWindowIndependent(open_datetime, close_datetime, now) ==
    <<now < open_datetime,
      now >= open_datetime /\ now < close_datetime,
      now >= close_datetime>>

\* the last three returns of contest_open_close(): before the contest is
\* open, after the open period, open now
ContestWindow(open_datetime, close_datetime, now) ==
    IF now < open_datetime THEN <<TRUE, FALSE, FALSE>>
    ELSE IF now >= close_datetime THEN <<FALSE, FALSE, TRUE>>
    ELSE <<FALSE, TRUE, FALSE>>

\* before_open, is_open, after_open
contest_open_close(user_dict, open_datetime, close_datetime, now) ==
    IF open_datetime = NoDatetime THEN <<FALSE, FALSE, FALSE>>
    ELSE IF close_datetime = NoDatetime THEN <<FALSE, FALSE, FALSE>>
    ELSE IF ~validate_user_dict_nolock(user_dict) THEN <<FALSE, FALSE, FALSE>>
    ELSE IF user_dict.ignore_date THEN <<FALSE, TRUE, FALSE>>
    ELSE ContestWindow(open_datetime, close_datetime, now)

\* a call of contest_open_close(): op keeps the arguments (user the user
\* information, file the open date, status the close date) and, in slot, the
\* reading of the clock the call made
contest_open_close_call(p) ==
    \E user_dict \in UserDictArgs :
      \E open_datetime \in DatetimeArgs, close_datetime \in DatetimeArgs, now \in Clock :
        /\ Called(p, [NoOp EXCEPT !.name = "contest_open_close", !.user = user_dict,
                                  !.file = open_datetime, !.status = close_datetime,
                                  !.slot = now])
        /\ result' = [result EXCEPT ![p] =
               [NoResult EXCEPT !.op = "contest_open_close", !.status = "ok",
                                !.open_close = contest_open_close(user_dict, open_datetime,
                                                                  close_datetime, now)]]
        /\ ioccc_last_errmsg' =
               IF /\ open_datetime # NoDatetime
                  /\ close_datetime # NoDatetime
                  /\ ~validate_user_dict_nolock(user_dict)
               THEN [ioccc_last_errmsg EXCEPT ![p] =
                        "ERROR: validate_user_dict_nolock: invalid iocccpasswd_format_version"]
               ELSE ioccc_last_errmsg
        /\ UNCHANGED <<fsvars, flock, ioccc_last_lock_fd, ioccc_last_lock_path, pc, stack, loc>>

NextWindow == \E p \in Callers : contest_open_close_call(p)

SpecWindow == Init /\ [][NextWindow]_vars

\* a new installation: neither the password file nor the state file exists yet
InitPw ==
    /\ flock = [l \in LockPaths |-> {}]
    /\ pwfile = PwMissing
    /\ statefile = StateMissing
    /\ slotjson = [n \in Slots |-> SlotMissing]
    /\ slotdir = [n \in Slots |-> EmptyDir]
    /\ staged = EmptyDir
    /\ unexpected = EmptyDir
    /\ pc = [p \in Procs |-> "idle"]
    /\ stack = [p \in Procs |-> <<>>]
    /\ op = [p \in Procs |-> NoOp]
    /\ nops = [p \in Procs |-> 0]
    /\ result = [p \in Procs |-> NoResult]
    /\ loc = [p \in Procs |-> LocInit]
    /\ ioccc_last_lock_fd = [p \in Procs |-> None]
    /\ ioccc_last_lock_path = [p \in Procs |-> None]
    /\ ioccc_last_errmsg = [p \in Procs |-> ""]

NextPw ==
    \E p \in Procs :
        \/ ioccc_file_lock_acquire(p)
        \/ read_pwfile_acquire(p)
        \/ read_pwfile_read(p)
        \/ update_username(p)
        \/ update_username_load(p)
        \/ update_username_write(p)
        \/ delete_username(p)
        \/ delete_username_load(p)
        \/ delete_username_write(p)
        \/ lookup_username_call(p)
        \/ lookup_username_return(p)
        \/ copy_pwfile_under_lock(p)
        \/ copy_pwfile_copy(p)
        \/ read_state(p)
        \/ read_state_load(p)

SpecPw == InitPw /\ [][NextPw]_vars

\* account commands run by two processes on a new installation
SpecPasswd == InitPw /\ [][NextPasswd]_vars

\* the stores called from outside, with arguments of any kind
NextFirewall ==
    \E p \in Procs :
        \/ ioccc_file_lock_acquire(p)
        \/ read_pwfile_acquire(p)
        \/ read_pwfile_read(p)
        \/ update_username_any(p)
        \/ update_username_load(p)
        \/ update_username_write(p)
        \/ delete_username_any(p)
        \/ delete_username_load(p)
        \/ delete_username_write(p)
        \/ lookup_username_any(p)
        \/ lookup_username_return(p)
        \/ update_slot_status_any(p)
        \/ update_slot_status_lock(p)
        \/ update_slot_status_write(p)

SpecFirewall == InitPw /\ [][NextFirewall]_vars

\* -------------------------------------- the two singleton stores as a system

\* update_username() as the password tool calls it
update_username_tool(p) == p \in Tools /\ nops[p] < MaxOthers /\ UpdateUsername(p, Users)

\* read_state() as the routes and bin/ioccc_date.py call it
read_state_any(p) == (p \in Tools => nops[p] < MaxOthers) /\ read_state(p)

\* the password file and the state file are missing, empty, not JSON, or
\* hold a document; the state document may have another version or a date
\* that is not in the format
InitSingletons ==
    /\ flock = [l \in LockPaths |-> {}]
    /\ pwfile \in {PwMissing, PwEmpty, PwBad, PwOk(INIT_PW_FILE)}
    /\ statefile \in {StateMissing, StateEmpty, StateBad, StateOk(INIT_STATE_FILE),
                       StateOk(StateDict("1.1 2024-12-29", OPEN_DATE, CLOSE_DATE)),
                       StateOk(StateDict(STATE_VERSION_VALUE, NOT_A_DATE, CLOSE_DATE))}
    /\ slotjson = [n \in Slots |-> SlotMissing]
    /\ slotdir = [n \in Slots |-> EmptyDir]
    /\ staged = EmptyDir
    /\ unexpected = EmptyDir
    /\ pc = [p \in Procs |-> "idle"]
    /\ stack = [p \in Procs |-> <<>>]
    /\ op = [p \in Procs |-> NoOp]
    /\ nops = [p \in Procs |-> 0]
    /\ result = [p \in Procs |-> NoResult]
    /\ loc = [p \in Procs |-> LocInit]
    /\ ioccc_last_lock_fd = [p \in Procs |-> None]
    /\ ioccc_last_lock_path = [p \in Procs |-> None]
    /\ ioccc_last_errmsg = [p \in Procs |-> ""]

NextSingletons ==
    \E p \in Procs :
        \/ ioccc_file_lock_acquire(p)
        \/ update_username_tool(p)
        \/ update_username_load(p)
        \/ update_username_write(p)
        \/ read_state_any(p)
        \/ read_state_load(p)
        \/ update_state(p)
        \/ update_state_write(p)

SpecSingletons == InitSingletons /\ [][NextSingletons]_vars

\* the slots of the user after an upload into the work slot: the slot names
\* the uploaded file as update_slot() recorded it, the other slots are as
\* initialize_user_tree() made them
UploadedSlotDict(slot_num, submit_file, c) ==
    [EmptySlotDict(slot_num) EXCEPT
        !.filename = submit_file,
        !.length = getsize(c),
        !.date = UPLOAD_DATE,
        !.SHA256 = sha256_file(c),
        !.collected = FALSE,
        !.status = "file successfully uploaded into slot."]

InitUploaded ==
    /\ flock = [l \in LockPaths |-> {}]
    /\ pwfile = PwOk(INIT_PW_FILE)
    /\ statefile = StateOk(INIT_STATE_FILE)
    /\ \E f \in Names, c \in Contents :
           /\ slotjson = [n \in Slots |->
                             IF n \in WorkSlots THEN SlotOk(UploadedSlotDict(n, f, c))
                             ELSE SlotOk(EmptySlotDict(n))]
           /\ slotdir = [n \in Slots |->
                            IF n \in WorkSlots THEN [EmptyDir EXCEPT ![f] = c]
                            ELSE EmptyDir]
    /\ staged = EmptyDir
    /\ unexpected = EmptyDir
    /\ pc = [p \in Procs |-> "idle"]
    /\ stack = [p \in Procs |-> <<>>]
    /\ op = [p \in Procs |-> NoOp]
    /\ nops = [p \in Procs |-> 0]
    /\ result = [p \in Procs |-> NoResult]
    /\ loc = [p \in Procs |-> LocInit]
    /\ ioccc_last_lock_fd = [p \in Procs |-> None]
    /\ ioccc_last_lock_path = [p \in Procs |-> None]
    /\ ioccc_last_errmsg = [p \in Procs |-> ""]

\* two runs of stage_submit() on the slot, and no upload
NextTwoStagers ==
    \E p \in Procs :
        \/ ioccc_file_lock_acquire(p)
        \/ read_pwfile_acquire(p)
        \/ read_pwfile_read(p)
        \/ stage_submit_any(p)
        \/ stage_lock_slot(p)
        \/ stage_get_slot_dict(p)
        \/ stage_validate(p)
        \/ stage_replace(p)
        \/ stage_return(p)

SpecTwoStagers == InitUploaded /\ [][NextTwoStagers]_vars

\* the next step of stage_submit() is a call of move_unexpected_nolock()
StageSweeps(p) ==
    \/ pc[p] = "st_sweep"
    \/ pc[p] = "st_locked" /\ loc[p].lock_ok /\ slotjson[op[p].slot].st # "ok"
    \/ /\ pc[p] = "st_validate"
       /\ validate_slot_nolock(loc[p].pw, loc[p].slot_dict, op[p].user, op[p].slot,
                               slotdir[op[p].slot], TRUE, TRUE) # None
    \/ /\ pc[p] = "st_replace"
       /\ \/ loc[p].slot_dict.filename = None
          \/ slotdir[op[p].slot][loc[p].slot_dict.filename] = NoFile

\* the process that runs stage_submit() dies at any point: between two steps,
\* or inside move_unexpected_nolock() after shutil.move() has moved some of
\* the files.  Its lock files are closed with it.
stage_submit_crash(p) ==
    /\ op[p].name = "stage_submit"
    /\ pc[p] # "idle"
    /\ \E moved \in SUBSET {f \in Names : /\ slotdir[op[p].slot][f] # NoFile
                                          /\ unexpected[f] = NoFile} :
           /\ moved # {} => StageSweeps(p)
           /\ slotdir' = [slotdir EXCEPT ![op[p].slot] =
                             [f \in Names |-> IF f \in moved THEN NoFile ELSE @[f]]]
           /\ unexpected' = [f \in Names |->
                                IF f \in moved THEN slotdir[op[p].slot][f] ELSE unexpected[f]]
    /\ flock' = [l \in LockPaths |-> flock[l] \ {Handle(p, "singleton"), Handle(p, "local")}]
    /\ ioccc_last_lock_fd' = [ioccc_last_lock_fd EXCEPT ![p] = None]
    /\ ioccc_last_lock_path' = [ioccc_last_lock_path EXCEPT ![p] = None]
    /\ ioccc_last_errmsg' = [ioccc_last_errmsg EXCEPT ![p] = ""]
    /\ Return(p, [NoResult EXCEPT !.op = "stage_submit", !.status = "crashed"])
    /\ UNCHANGED <<pwfile, statefile, slotjson, staged, op, nops>>

\* the work slot with two submit files in its directory: the slot JSON file
\* names the first (an upload of the second is under way or was cut short),
\* names none, or is cut short itself; the staging directory and the
\* unexpected directory are empty or hold an older file of the same name
STRAY_FILE == "submit.alice-0.1700000002.txz"
UPLOADED_FILE == "submit.alice-0.1700000001.txz"

InitStrays ==
    /\ flock = [l \in LockPaths |-> {}]
    /\ pwfile = PwOk(INIT_PW_FILE)
    /\ statefile = StateOk(INIT_STATE_FILE)
    /\ \E sj \in {SlotOk(UploadedSlotDict(0, UPLOADED_FILE, "c1")), SlotOk(EmptySlotDict(0)), SlotBad} :
           slotjson = [n \in Slots |-> IF n \in WorkSlots THEN sj ELSE SlotOk(EmptySlotDict(n))]
    /\ slotdir = [n \in Slots |->
                     IF n \in WorkSlots
                     THEN [EmptyDir EXCEPT ![UPLOADED_FILE] = "c1", ![STRAY_FILE] = "c2"]
                     ELSE EmptyDir]
    /\ staged \in {EmptyDir, [EmptyDir EXCEPT ![UPLOADED_FILE] = "c2"]}
    /\ unexpected \in {EmptyDir, [EmptyDir EXCEPT ![STRAY_FILE] = "c1"]}
    /\ pc = [p \in Procs |-> "idle"]
    /\ stack = [p \in Procs |-> <<>>]
    /\ op = [p \in Procs |-> NoOp]
    /\ nops = [p \in Procs |-> 0]
    /\ result = [p \in Procs |-> NoResult]
    /\ loc = [p \in Procs |-> LocInit]
    /\ ioccc_last_lock_fd = [p \in Procs |-> None]
    /\ ioccc_last_lock_path = [p \in Procs |-> None]
    /\ ioccc_last_errmsg = [p \in Procs |-> ""]

\* runs of stage_submit() that may die at any point
NextStageCrash ==
    \E p \in Procs :
        \/ ioccc_file_lock_acquire(p)
        \/ read_pwfile_acquire(p)
        \/ read_pwfile_read(p)
        \/ stage_submit_any(p)
        \/ stage_lock_slot(p)
        \/ stage_get_slot_dict(p)
        \/ stage_validate(p)
        \/ stage_replace(p)
        \/ stage_return(p)
        \/ stage_submit_crash(p)

SpecStageCrash == InitStrays /\ [][NextStageCrash]_vars

\* two processes that call update_username() on a new installation
NextUpsert ==
    \E p \in Procs :
        \/ ioccc_file_lock_acquire(p)
        \/ update_username(p)
        \/ update_username_load(p)
        \/ update_username_write(p)

SpecUpsert == InitPw /\ [][NextUpsert]_vars

\* ------------------------------------------ the stores called side by side

\* the operations of the password store, the slot store and the state store
\* side by side: a worker of the web application that takes uploads and
\* administers the accounts and the contest dates, and the tools that stage
\* a slot, set its status and read the accounts and the state
NextLocks ==
    \E p \in Procs :
        \/ ioccc_file_lock_acquire(p)
        \/ read_pwfile_acquire(p)
        \/ read_pwfile_read(p)
        \/ stage_submit(p)
        \/ stage_lock_slot(p)
        \/ stage_get_slot_dict(p)
        \/ stage_validate(p)
        \/ stage_replace(p)
        \/ stage_return(p)
        \/ upload(p)
        \/ initialize_user_tree_start(p)
        \/ initialize_user_tree_slot(p)
        \/ update_slot_hash(p)
        \/ update_slot_write(p)
        \/ p \in Tools /\ nops[p] < MaxOthers /\ update_slot_status(p)
        \/ update_slot_status_lock(p)
        \/ update_slot_status_write(p)
        \/ p \in Callers /\ nops[p] <= MaxOthers /\ update_username(p)
        \/ update_username_load(p)
        \/ update_username_write(p)
        \/ p \in Callers /\ nops[p] <= MaxOthers /\ delete_username(p)
        \/ delete_username_load(p)
        \/ delete_username_write(p)
        \/ p \in Tools /\ nops[p] < MaxOthers /\ lookup_username_call(p)
        \/ lookup_username_return(p)
        \/ p \in Tools /\ nops[p] < MaxOthers /\ read_state(p)
        \/ read_state_load(p)
        \/ p \in Callers /\ nops[p] <= MaxOthers /\ update_state(p)
        \/ update_state_write(p)

SpecLocks == Init /\ [][NextLocks]_vars

\* ------------------------------------------------------------ the properties

\* the step in which the running operation of p returns to its caller
Returns(p) == pc[p] # "idle" /\ pc'[p] = "idle"

\* the step in which the running operation of p returns a value (it does not raise)
ReturnsValue(p) == Returns(p) /\ result'[p].status \in {"ok", "fail"}

StageReturns(p, status) ==
    Returns(p) /\ result'[p].op = "stage_submit" /\ result'[p].status = status

\* C1: lock mutual exclusion.  For every lock path, the lock is never held by
\* handles of two different processes: of two processes that issue
\* ioccc_file_lock() on the same path, the second is not granted the lock
\* until the first has released it.
LockMutualExclusion ==
    \A l \in LockPaths : \A g, h \in flock[l] : g[1] = h[1]

\* a process holds the lock of a path while another one is inside the
\* acquire() of ioccc_file_lock() for the same path
LockContended ==
    \E p, q \in Procs :
        /\ p # q
        /\ pc[q] = "fl_acquire"
        /\ Handle(p, "singleton") \in flock[ioccc_last_lock_fd[q]]

\* C2: locks are released on every exit path.  Whenever an operation that
\* acquired a lock with ioccc_file_lock() returns a value to its caller, be it
\* its success value or a failure sentinel, the process holds no lock.
LocksReleasedOnReturn ==
    [][\A p \in Procs :
           (ReturnsValue(p) /\ loc[p].took_lock) => (HeldBy(p) = {})']_vars

\* C3: the staging post-condition.  When a stage_submit() that locked the slot
\* returns, with success or with failure, the slot directory holds no
\* submit.*.txz file.
StagingLeavesNoSubmitFile ==
    [][\A p \in Procs :
           (Returns(p) /\ op[p].name = "stage_submit" /\ loc[p].took_lock)
               => slotdir'[op[p].slot] = EmptyDir]_vars

\* C4: at every instant a process holds at most one lock.
AtMostOneLockHeld ==
    \A p \in Procs : Cardinality(HeldBy(p)) <= 1

\* the process is inside validate_slot_nolock(): the call returns to the
\* step of stage_submit() that examines the slot error
InNolock(p) == \E i \in 1..Len(stack[p]) : stack[p][i] = "st_validate"

\* C5: no *_nolock operation acquires a lock, directly or through a function
\* it calls: while a process is inside validate_slot_nolock() it comes to hold
\* no lock that it did not hold before.
NolockNeverLocks ==
    [][\A p \in Procs : InNolock(p) => (HeldBy(p))' \subseteq HeldBy(p)]_vars

\* what validate_slot_nolock() saw of the slot when stage_submit() called it:
\* under the slot lock, the recorded file existed with the recorded hash and
\* the recorded length, and the record was not marked as collected
ValidatedFully(p) ==
    LET d == loc[p].slot_dict
        seen == loc[p].seen
    IN /\ seen.locked
       /\ d.filename \in Names
       /\ seen.file # NoFile
       /\ sha256_file(seen.file) = d.SHA256
       /\ getsize(seen.file) = d.length
       /\ ~seen.collected

\* C6: stage_submit() returns success only if the slot record validated fully
\* under the slot lock (the recorded file exists, its SHA-256 and its size are
\* the recorded ones, the record is not marked collected), and a file comes
\* into the staging directory only by the os.replace() of such a call.
StageSuccessOnlyIfValidated ==
    [][/\ \A p \in Procs : StageReturns(p, "ok") => ValidatedFully(p)
       /\ staged' # staged => \E p \in Procs : pc[p] = "st_replace" /\ ValidatedFully(p)]_vars

\* stage_submit() has returned success and the file is in the staging directory
StagedSubmitFile ==
    \E p \in Procs :
        /\ pc[p] = "idle"
        /\ result[p].op = "stage_submit"
        /\ result[p].status = "ok"
        /\ \E f \in Names : staged[f] # NoFile /\ result[p].path = StagedPath(f)

\* C7: whenever stage_submit() returns success, the file is in the staging
\* directory under its recorded name, the returned path and hash are that path
\* and the recorded hash, and the slot record on disk has collected true and
\* the status of a staged slot.
StageSuccessRecordsCollected ==
    [][\A p \in Procs :
           StageReturns(p, "ok") =>
               LET d == loc[p].slot_dict
                   on_disk == slotjson'[op[p].slot]
               IN /\ staged'[d.filename] # NoFile
                  /\ result'[p].path = StagedPath(d.filename)
                  /\ result'[p].sha = d.SHA256
                  /\ on_disk.st = "ok"
                  /\ on_disk.d.filename = d.filename
                  /\ on_disk.d.collected
                  /\ on_disk.d.status = "successfully moved submit file into the staging area"]_vars

\* stage_submit() leaves after the slot record failed to load or to validate
ValidationFails(p) ==
    /\ StageReturns(p, "fail")
    /\ \/ pc[p] = "st_locked" /\ loc[p].lock_ok
       \/ pc[p] = "st_validate"

\* C8: on a validation failure stage_submit() moves every submit.*.txz file of
\* the slot directory into the unexpected directory and returns
\* (None, ".", count) with count the number of files it moved.
ValidationFailureQuarantinesAll ==
    [][\A p \in Procs :
           ValidationFails(p) =>
               LET before == slotdir[op[p].slot]
                   found == {f \in Names : before[f] # NoFile}
               IN /\ slotdir'[op[p].slot] = EmptyDir
                  /\ \A f \in found : unexpected'[f] = before[f]
                  /\ result'[p] = StageFailure(Cardinality(found))]_vars

\* C9: stale-lock recovery.  When a process that still holds a lock issues
\* ioccc_file_lock() on another path, the old lock is released and the warning
\* is recorded; and the acquire() that follows succeeds when no other process
\* holds the new path.
StaleLockRecovery ==
    [][\A p \in Procs :
           /\ (/\ pc[p] # "fl_acquire"
               /\ pc'[p] = "fl_acquire"
               /\ is_locked(p, LS(p))
               /\ ioccc_last_lock_fd'[p] # ioccc_last_lock_fd[p])
                  => /\ Handle(p, "singleton") \notin flock'[ioccc_last_lock_fd[p]]
                     /\ ioccc_last_errmsg'[p] = "Warning: forcing unlock of old lock"
           /\ (/\ pc[p] = "fl_acquire"
               /\ pc'[p] # "fl_acquire"
               /\ ioccc_last_errmsg[p] = "Warning: forcing unlock of old lock"
               /\ \A h \in flock[ioccc_last_lock_fd[p]] : h[1] = p)
                  => /\ loc'[p].lock_ok
                     /\ HeldBy(p)' = {ioccc_last_lock_fd[p]}]_vars

\* a process that returned from delete_username() with the password lock held
\* has locked the state file: the warning is recorded and it holds that lock only
StaleLockRecovered ==
    \E p \in Procs :
        /\ pc[p] = "rs_locked"
        /\ loc[p].lock_ok
        /\ ioccc_last_errmsg[p] = "Warning: forcing unlock of old lock"
        /\ HeldBy(p) = {STATE_FILE_LOCK}

\* the record that the lock of a path guards
GuardedRecord(file_lock) ==
    IF file_lock = PW_LOCK THEN "pw"
    ELSE IF file_lock = STATE_FILE_LOCK THEN "state"
    ELSE "slot"

\* C10: an operation whose acquire() timed out returns its failure sentinel,
\* it does not raise, and it has not modified the record the lock guards.
TimeoutLeavesRecordUnmodified ==
    [][\A p \in Procs :
           (Returns(p) /\ loc[p].timed_out # None) =>
               /\ result'[p].status = "fail"
               /\ GuardedRecord(loc[p].timed_out) \notin loc[p].modified]_vars

\* p returns from a stage_submit() that ran with no other operation beside it,
\* as the second operation ever, after the upload of q into the same slot
\* (which initialize_user_tree() had just created from the template) returned True
StageFollowsUpload(p, q) ==
    /\ Returns(p)
    /\ op[p].name = "stage_submit"
    /\ loc[p].alone
    /\ q # p
    /\ nops[p] = 1
    /\ nops[q] = 1
    /\ pc[q] = "idle"
    /\ result[q] = UploadResult("ok")
    /\ op[q].slot = op[p].slot

\* C11: the end-to-end sequence.  On a slot just created from the template,
\* update_slot() with a valid submit file followed, with no operation in
\* between, by stage_submit() returns (SHA256 of the file, STAGED_DIR/<file
\* name>, 0); afterwards the slot record has collected true, the file is gone
\* from the slot directory and it is in the staging directory.
EndToEndSequence ==
    [][\A p, q \in Procs :
           StageFollowsUpload(p, q) =>
               LET f == op[q].file
                   n == op[p].slot
               IN /\ staged'[f] # NoFile
                  /\ result'[p] = StageSuccess(sha256_file(staged'[f]), StagedPath(f), 0)
                  /\ slotjson'[n].st = "ok"
                  /\ slotjson'[n].d.filename = f
                  /\ slotjson'[n].d.collected
                  /\ slotdir'[n] = EmptyDir]_vars

\* C12: whatever update_username() and delete_username() calls the processes
\* have issued, one after the other or at the same time, the list in the
\* password file never has two records with the same username.
OneRecordPerUsername ==
    pwfile.st = "ok" =>
        \A i, j \in 1..Len(pwfile.users) :
            pwfile.users[i].username = pwfile.users[j].username => i = j

\* both processes have returned True from update_username() for the same new
\* user, and the password file holds the list with that user
BothUpsertedSameUser ==
    /\ \A p \in Procs :
           /\ pc[p] = "idle"
           /\ result[p] = PwResult("update_username", "ok")
           /\ op[p].user = "bob"
    /\ pwfile.st = "ok"
    /\ \E i \in 1..Len(pwfile.users) : pwfile.users[i].username = "bob"

\* p returns True from an update_username() that it called twice in a row
\* with the same arguments, and that found the record of the first call
SecondUpsertReturns(p) ==
    /\ pc[p] = "uu_write"
    /\ pc'[p] = "idle"
    /\ result'[p] = PwResult("update_username", "ok")
    /\ loc[p].again
    /\ \E i \in 1..Len(loc[p].before) :
           loc[p].before[i] = UserRecord(op[p].user, op[p].pwhash)

\* C13: update_username() is idempotent.  The second of two calls in a row
\* with the same arguments leaves the password file with the list it found:
\* the record of the user is the one the first call left and the length of
\* the list is the same.
UpsertIdempotent ==
    [][\A p \in Procs :
           SecondUpsertReturns(p) =>
               /\ pwfile'.st = "ok"
               /\ Len(pwfile'.users) = Len(loc[p].before)
               /\ \A i \in 1..Len(loc[p].before) :
                      pwfile'.users[i] = loc[p].before[i]]_vars

\* a process has called update_username() twice in a row for a user that the
\* first call added, and both calls returned True
UpsertedTwice ==
    \E p \in Procs :
        /\ pc[p] = "idle"
        /\ nops[p] = 2
        /\ op[p] = [Op("update_username", "bob") EXCEPT !.pwhash = NEW_PWHASH]
        /\ result[p] = PwResult("update_username", "ok")
        /\ pwfile = PwOk(<<UserRecord(USER, "h0"), UserRecord("bob", NEW_PWHASH)>>)

CollectedImpliesFilename ==
    \A n \in Slots :
        (slotjson[n].st = "ok" /\ slotjson[n].d.collected)
            => slotjson[n].d.filename # None

UpdateSlotRecorded(p) ==
    LET n == op[p].slot
        f == op[p].file
        old == slotjson[n].d.filename
        d == slotjson'[n].d
    IN /\ slotjson'[n].st = "ok"
       /\ d.filename = f
       /\ slotdir'[n][f] # NoFile
       /\ d.length = getsize(slotdir'[n][f])
       /\ d.SHA256 = sha256_file(slotdir'[n][f])
       /\ d.collected = FALSE
       /\ d.status = "file successfully uploaded into slot."
       /\ (old # None /\ old # f) => slotdir'[n][old] = NoFile

UpdateSlotPostcondition ==
    [][\A p \in Procs :
          (/\ pc[p] = "us_locked"
           /\ pc'[p] = "idle"
           /\ result'[p] = UploadResult("ok"))
              => UpdateSlotRecorded(p)]_vars

\* C18: the conditional status patch.  When update_slot_status_if_submit()
\* has the slot locked and read, and the slot names another file than the
\* expected one, the call returns success, reports no error and leaves the
\* slot record as it was; the call changes the slot record only when the
\* two file names are equal.
PatchDecided(p) ==
    /\ pc[p] = "ussi_locked"
    /\ pc'[p] = "idle"
    /\ loc[p].lock_ok
    /\ slotjson[op[p].slot].st = "ok"

ConditionalStatusPatch ==
    [][\A p \in Procs :
          PatchDecided(p) =>
              /\ op[p].file # slotjson[op[p].slot].d.filename =>
                     /\ result'[p] = SlotStatusResult("update_slot_status_if_submit", "ok")
                     /\ ioccc_last_errmsg'[p] = ioccc_last_errmsg[p]
                     /\ slotjson' = slotjson
              /\ slotjson' # slotjson =>
                     /\ op[p].file = slotjson[op[p].slot].d.filename
                     /\ slotjson' = [slotjson EXCEPT ![op[p].slot].d.status = op[p].status]]_vars

\* a status patch for one file has returned success while the slot holds the
\* record of an upload of another file, with the status of that upload
PatchDroppedAfterUpload ==
    \E p \in Tools :
        /\ pc[p] = "idle"
        /\ op[p].name = "update_slot_status_if_submit"
        /\ result[p] = SlotStatusResult("update_slot_status_if_submit", "ok")
        /\ slotjson[op[p].slot].st = "ok"
        /\ slotjson[op[p].slot].d.filename \in Names \ {op[p].file}
        /\ slotjson[op[p].slot].d.status = "file successfully uploaded into slot."

\* C19: initialize_user_tree() never holds two slot locks at once: while it
\* runs, the process holds at most one slot lock, and when it is about to
\* acquire the lock of the next slot it holds no slot lock, the lock of the
\* slot before having been released.
SlotLocks == {return_slot_lockfile(USER, n) : n \in Slots}

InUserTree(p) ==
    \/ pc[p] \in {"iut_start", "iut_locked"}
    \/ pc[p] = "fl_acquire" /\ Head(stack[p]) = "iut_locked"

OneSlotLockAtATime ==
    \A p \in Procs :
        InUserTree(p) =>
            /\ Cardinality(HeldBy(p) \cap SlotLocks) <= 1
            /\ pc[p] = "fl_acquire" => HeldBy(p) \cap SlotLocks = {}
            /\ (pc[p] = "iut_locked" /\ loc[p].lock_ok) =>
                    HeldBy(p) \cap SlotLocks = {return_slot_lockfile(op[p].user, loc[p].k)}

\* the function holds the lock of the second slot, having held and released
\* the lock of the first
SecondSlotLocked ==
    \E p \in Procs :
        /\ pc[p] = "iut_locked"
        /\ loc[p].lock_ok
        /\ loc[p].k = FirstSlot + 1
        /\ Len(loc[p].slots) = 1
        /\ HeldBy(p) = {return_slot_lockfile(op[p].user, FirstSlot + 1)}

\* C20: initialize_user_tree() for a known user.  In each round of its loop,
\* with the slot locked, a slot whose JSON file is absent or unreadable gets
\* the empty template written to it and the function goes on; a slot whose
\* JSON file holds a valid record is not rewritten; and when the function
\* returns its list, the list has one record for every slot.
TreeRound(p) ==
    /\ pc[p] = "iut_locked"
    /\ pc'[p] # "iut_locked"
    /\ loc[p].lock_ok

InitializeAllSlots ==
    [][\A p \in Procs :
          TreeRound(p) =>
              LET k == loc[p].k
              IN /\ slotjson[k].st # "ok" =>
                        /\ slotjson'[k] = SlotOk(EmptySlotDict(k))
                        /\ result'[p].status \notin {"raised", "fail"}
                 /\ (/\ slotjson[k].st = "ok"
                     /\ validate_slot_dict_nolock(slotjson[k].d, k) = None) =>
                        /\ slotjson' = slotjson
                        /\ result'[p].status \notin {"raised", "fail"}
                 /\ result'[p] = TreeResult("ok", result'[p].count) =>
                        result'[p].count = Cardinality(Slots)]_vars

\* C21: the file that copy_pwfile_under_lock() wrote when it returned True
\* holds a whole password array: it is never an empty, cut short or partly
\* written one, whatever update_username(), delete_username() and
\* lookup_username() the other process runs.
ExportIsWholeArray ==
    \A p \in Procs :
        result[p].op = "copy_pwfile_under_lock" /\ result[p].status = "ok"
            => result[p].newfile.st = "ok"

\* C22: delete_username().  With the password file locked and loaded, when
\* the list has no record of the user the call returns None and the list in
\* the file is the one that was loaded; when it has one, the call returns the
\* record (success) and the file then holds the loaded list without the
\* records of that user, the other records as they were and in their order.
HasUser(users, username) == \E i \in 1..Len(users) : users[i].username = username

DeleteAbsent(p) ==
    /\ pc[p] = "du_locked"
    /\ pc'[p] = "idle"
    /\ loc[p].lock_ok
    /\ SeedPwFile(pwfile).st = "ok"
    /\ SeedPwFile(pwfile).users # <<>>
    /\ ~HasUser(SeedPwFile(pwfile).users, op[p].user)

DeletePresent(p) ==
    /\ pc[p] = "du_write"
    /\ pc'[p] = "idle"

DeleteFiltersOne ==
    [][\A p \in Procs :
          /\ DeleteAbsent(p) =>
                 /\ result'[p] = PwResult("delete_username", "fail")
                 /\ pwfile' = SeedPwFile(pwfile)
          /\ DeletePresent(p) =>
                 /\ HasUser(loc[p].before, op[p].user)
                 /\ result'[p] = PwResult("delete_username", "ok")
                 /\ pwfile' = PwOk(OtherUsers(loc[p].before, op[p].user))]_vars

\* C23: the firewall of the arguments.  A store operation that is called
\* with a username that is not a string, is shorter than MIN_USERNAME_LENGTH
\* or longer than MAX_USERNAME_LENGTH, or has a character outside
\* [0-9A-Za-z._+-] or a first character outside [0-9A-Za-z], or with a slot
\* number out of range, returns its failure value at once: it raises nothing,
\* changes no store file and acquires no lock.
MalformedUsername(arg) ==
    \/ arg = NOT_A_STRING
    \/ Len(Characters(arg)) < MIN_USERNAME_LENGTH
    \/ Len(Characters(arg)) > MAX_USERNAME_LENGTH
    \/ Characters(arg)[1] \notin AlnumChars
    \/ \E i \in 1..Len(Characters(arg)) : Characters(arg)[i] \notin SafeChars

CalledWithBadArgs(p) ==
    /\ nops'[p] = nops[p] + 1
    /\ \/ MalformedUsername(op'[p].user)
       \/ op'[p].name = "update_slot_status" /\ op'[p].slot \notin Slots

FirewallBeforeIO ==
    [][\A p \in Procs :
          CalledWithBadArgs(p) =>
              /\ pc'[p] = "idle"
              /\ result'[p] = [NoResult EXCEPT !.op = op'[p].name, !.status = "fail"]
              /\ UNCHANGED <<fsvars, flock>>]_vars

\* C24: the two singleton stores.  With the file locked, a password file or
\* state file that is missing or empty is replaced by its template and the
\* operation goes on with it; a file that is present but is not JSON, or
\* that holds a document that fails the checks, makes the operation return
\* its failure value (it raises nothing) and is left as it is.
StateFileLoaded(p) ==
    pc[p] = "rs_locked" /\ pc'[p] = "idle" /\ loc[p].lock_ok

PwFileLoaded(p) ==
    pc[p] = "uu_locked" /\ pc'[p] # "uu_locked" /\ loc[p].lock_ok

StateFileReseedOnlyIfMissing ==
    \A p \in Procs :
        StateFileLoaded(p) =>
            IF statefile.st \in {"missing", "empty"}
            THEN /\ statefile' = StateOk(INIT_STATE_FILE)
                 /\ result'[p].status = "ok"
            ELSE /\ statefile' = statefile
                 /\ StateError(statefile) # None => result'[p] = StateResult("read_state", "fail")

PwFileReseedOnlyIfMissing ==
    \A p \in Procs :
        PwFileLoaded(p) =>
            IF pwfile.st \in {"missing", "empty"}
            THEN pc'[p] = "uu_write" /\ loc'[p].before = INIT_PW_FILE
            ELSE IF pwfile.st = "bad" \/ pwfile.users = <<>>
            THEN /\ pwfile' = pwfile
                 /\ result'[p] = PwResult("update_username", "fail")
            ELSE loc'[p].before = pwfile.users

ReseedOnlyIfMissingOrEmpty ==
    [][StateFileReseedOnlyIfMissing /\ PwFileReseedOnlyIfMissing]_vars

\* C25: contest window exclusivity.  Original statement: whatever the open
\* date, the close date and the clock, exactly one of before_open, is_open,
\* after_open is true, and for a user who may ignore the date the answer is
\* (false, true, false) unconditionally.
ContestChecked(p) == op[p].name = "contest_open_close"

ExactlyOne(t) ==
    \/ t = <<TRUE, FALSE, FALSE>>
    \/ t = <<FALSE, TRUE, FALSE>>
    \/ t = <<FALSE, FALSE, TRUE>>

WindowArgsValid(p) ==
    /\ op[p].file # NoDatetime
    /\ op[p].status # NoDatetime
    /\ validate_user_dict_nolock(op[p].user)

StateWritten(w) ==
    /\ pc[w] = "idle"
    /\ op[w].name = "update_state"
    /\ result[w].op = "update_state"
    /\ result[w].status = "ok"

StateReadReturns(r) == pc[r] = "rs_locked" /\ pc'[r] = "idle" /\ loc[r].lock_ok

StateRoundTrip ==
    [][/\ \A w \in Callers :
             StateWritten(w)' =>
                 /\ strptime(op'[w].file) # NoDatetime
                 /\ strptime(op'[w].status) # NoDatetime
       /\ \A w \in Callers :
           \A r \in Procs \ {w} :
             StateWritten(w) /\ StateReadReturns(r) =>
                 /\ result'[r].op = "read_state"
                 /\ result'[r].status = "ok"
                 /\ result'[r].open_datetime = strptime(op[w].file)
                 /\ result'[r].close_datetime = strptime(op[w].status)]_vars

\* the later open date was written and has been read back
StateReadBack ==
    /\ StateWritten("p1")
    /\ op["p1"].file = OPEN_DATE_LATER
    /\ result["p2"].op = "read_state"
    /\ result["p2"].status = "ok"
    /\ result["p2"].open_datetime = strptime(OPEN_DATE_LATER)
    /\ result["p2"].close_datetime = strptime(CLOSE_DATE)

\* C27: the stdout contract of stage.py.  A run that exits 0 prints the
\* SHA256 hash of the staged file, the path of the staged file and the
\* count of unexpected files; a run that exits with another code prints
\* "exit.<code>", "." and the count, also when stage_submit() reported the
\* failure.
StageCliSuccessFields(p) ==
    /\ result[p].stdout[1] \notin {"None", "."}
    /\ \E f \in Names : staged[f] # NoFile /\ result[p].stdout[2] = StagedPath(f)
    /\ result[p].stdout[3] \in Nat

StageCliFailureFields(p) ==
    /\ result[p].stdout[1] = "exit." \o ToString(result[p].exit)
    /\ result[p].stdout[2] = "."
    /\ result[p].stdout[3] \in Nat

StageStdoutContract ==
    \A p \in Procs :
        result[p].op = "stage.py" =>
            IF result[p].exit = 0 THEN StageCliSuccessFields(p) ELSE StageCliFailureFields(p)

\* C28: a store function that returns its failure value has set the last
\* error message during the call: right after the call the last error
\* message is the message of that failure, one that the function or a
\* function it called sets where it fails.
FailureMessages(name) ==
    CASE name = "read_state" ->
             {"Warning: lock timeout",
              "Warning: read_state: unable to read the state file",
              "ERROR: read_state: invalid JSON no_comment in state file",
              "ERROR: read_state: invalid JSON state_JSON_format_version in state file",
              "ERROR: read_state: state file open_date is not in proper datetime format",
              "ERROR: read_state: state file close_date is not in proper datetime format"}
      [] name = "update_state" ->
             {"Warning: lock timeout",
              "ERROR: update_state: open_date arg not in proper datetime format",
              "ERROR: update_state: state file close_date is not in proper datetime format",
              "ERROR: update_state: cannot write state file"}
      [] OTHER -> {ioccc_last_errmsg'[p] : p \in Procs} \
                      {"", "Notice: no lock to unlock", "Warning: forcing unlock of old lock",
                       "Warning: old lock state is unlocked"}

ReturnsFailure(p) ==
    /\ result'[p].status = "fail"
    /\ \/ pc[p] # "idle" /\ pc'[p] = "idle"
       \/ nops'[p] # nops[p]

FailureSetsLastError ==
    [][\A p \in Procs :
           ReturnsFailure(p) => ioccc_last_errmsg'[p] \in FailureMessages(result'[p].op)]_vars

\* C29: a lock that a process left held is forced open by its next
\* ioccc_file_lock().  Original statement: the next ioccc_file_lock() of the
\* process, on the same path or on another one, releases the lock that was
\* left held and then obtains the requested lock, without a timeout.
LockAbandoned(p) ==
    /\ ioccc_last_lock_fd[p] # None
    /\ Handle(p, "singleton") \in flock[ioccc_last_lock_fd[p]]

NextAcquireStarts(p) == pc[p] # "fl_acquire" /\ pc'[p] = "fl_acquire"

AcquireAfterForcedUnlock(p) ==
    /\ pc[p] = "fl_acquire"
    /\ pc'[p] # "fl_acquire"
    /\ ioccc_last_errmsg[p] = "Warning: forcing unlock of old lock"

AbandonedLockReleased(p) ==
    LockAbandoned(p) /\ NextAcquireStarts(p) =>
        /\ \A l \in LockPaths : Handle(p, "singleton") \notin flock'[l]
        /\ ioccc_last_errmsg'[p] = "Warning: forcing unlock of old lock"

AbandonedLockForcedOpenAlways ==
    [][\A p \in Procs :
           /\ AbandonedLockReleased(p)
           /\ AcquireAfterForcedUnlock(p) =>
                  /\ loc'[p].lock_ok
                  /\ Handle(p, "singleton") \in flock'[ioccc_last_lock_fd[p]]]_vars

\* C29, as the code has it: the release is unconditional, and the acquire
\* that follows obtains the requested lock provided that no other lock
\* handle holds the requested path at that moment; if one does, the acquire
\* waits and times out as any other acquire, and the process holds no lock.
AbandonedLockForcedOpen ==
    [][\A p \in Procs :
           /\ AbandonedLockReleased(p)
           /\ AcquireAfterForcedUnlock(p) =>
                  LET file_lock == ioccc_last_lock_fd[p]
                      h == Handle(p, "singleton")
                  IN IF flock[file_lock] \ {h} = {}
                     THEN /\ loc'[p].lock_ok
                          /\ \A l \in LockPaths : h \in flock'[l] <=> l = file_lock
                     ELSE /\ ~loc'[p].lock_ok
                          /\ \A l \in LockPaths : h \notin flock'[l]]_vars

\* the second operation of a process locks the password file again, which
\* its first operation, a delete_username(), left locked
SamePathForcedOpen ==
    \E p \in Procs :
        /\ nops[p] = 2
        /\ pc[p] = "uu_locked"
        /\ loc[p].lock_ok
        /\ ioccc_last_errmsg[p] = "Warning: forcing unlock of old lock"
        /\ ioccc_last_lock_fd[p] = PW_LOCK

\* C30: update_slot() computes the SHA256 hash of the submit file before it
\* takes the slot lock.  The step that hashes the file is the one that goes
\* on to lock_slot(), it runs while the process does not hold the lock of
\* the slot, and between the return of lock_slot() and the return of
\* update_slot() the file is not hashed: the hash written into the slot is
\* the one computed before the lock.
Hashes(p) == loc'[p].sha # loc[p].sha /\ loc'[p].sha # None

HashBeforeSlotLock ==
    [][\A p \in Procs :
           /\ Hashes(p) =>
                  /\ pc[p] = "us_hash"
                  /\ lock_slot_path(op[p]) \notin HeldBy(p)
                  /\ pc'[p] = "fl_acquire"
                  /\ ioccc_last_lock_fd'[p] = lock_slot_path(op[p])
                  /\ loc'[p].sha = sha256_file(slotdir[op[p].slot][op[p].file])
           /\ pc[p] = "us_locked" /\ pc'[p] # "us_locked" =>
                  /\ ~Hashes(p)
                  /\ slotjson'[op[p].slot] # slotjson[op[p].slot] =>
                         /\ loc[p].sha # None
                         /\ slotjson'[op[p].slot].d.SHA256 = loc[p].sha]_vars

\* update_slot() holds the slot lock with the hash of the uploaded file
\* computed, and another upload has replaced the content of the file since
HashedThenLocked ==
    \E p \in Procs :
        /\ pc[p] = "us_locked"
        /\ loc[p].lock_ok
        /\ lock_slot_path(op[p]) \in HeldBy(p)
        /\ loc[p].sha # None
        /\ slotdir[op[p].slot][op[p].file] # NoFile
        /\ loc[p].sha # sha256_file(slotdir[op[p].slot][op[p].file])

\* C31: validate_slot_dict_nolock(slot_dict, username, slot_num) returns None
\* only for a dictionary with the right version, the slot number slot_num, a
\* filename that is null or of the form submit.<username>-<slot_num>.<epoch>.txz,
\* and length, date and SHA256 all null when the filename is null and all
\* set when it is not; for every other dictionary it returns an error string.
SlotDictValidated(p) == op[p].name = "validate_slot_dict_nolock"

SlotFieldsNull(d) == d.length = NullLength /\ d.date = None /\ d.SHA256 = None

SlotFieldsSet(d) ==
    /\ d.length # NullLength /\ d.length >= 0
    /\ d.date \notin {None, ""}
    /\ d.SHA256 \notin {None, ""}

SlotDictWellFormed(d, slot_num) ==
    /\ d.slot_JSON_format_version = SLOT_VERSION_VALUE
    /\ d.slot = slot_num
    /\ d.filename # None => d.filename \in Names
    /\ IF d.filename = None THEN SlotFieldsNull(d) ELSE SlotFieldsSet(d)

ValidateAcceptsOnlyWellFormed ==
    \A p \in Procs :
        SlotDictValidated(p) =>
            /\ result[p].status \in {"ok", "fail"}
            /\ result[p].status = "ok" => SlotDictWellFormed(op[p].file, op[p].slot)

SlotStatusDone(p) ==
    /\ op[p].name = "update_slot_status"
    /\ pc[p] = "uss_locked"
    /\ pc'[p] = "idle"

EmailUnique ==
    pwfile.st = "ok" =>
        \A i, j \in 1..Len(pwfile.users) :
            (i # j /\ pwfile.users[i].email # None) =>
                pwfile.users[i].email # pwfile.users[j].email

\* C35: the order of the locks.  A process that waits for the lock of a slot
\* or for the lock of the state file holds no lock at all, the password lock
\* least of all; the process that waits for the password lock inside
\* read_pwfile() is the only one that waits with a lock held.  So two
\* processes never wait for each other, and the lock that a process waits for
\* is always given or refused: no mix of stage_submit, update_slot,
\* initialize_user_tree, update_slot_status, update_username,
\* delete_username, lookup_username, read_state and update_state blocks.
WaitsFor(p) ==
    IF pc[p] = "fl_acquire" THEN ioccc_last_lock_fd[p]
    ELSE IF pc[p] = "rp_acquire" THEN PW_LOCK
    ELSE None

BlockedBy(p, q) == WaitsFor(p) # None /\ WaitsFor(p) \in HeldBy(q)

NoWaitHoldingPwLock ==
    /\ \A p \in Procs :
           (pc[p] = "fl_acquire" /\ WaitsFor(p) # PW_LOCK) => HeldBy(p) = {}
    /\ \A p \in Procs : \A q \in Procs \ {p} : ~(BlockedBy(p, q) /\ BlockedBy(q, p))
    /\ \A p \in Procs :
           /\ pc[p] = "fl_acquire" => ENABLED ioccc_file_lock_acquire(p)
           /\ pc[p] = "rp_acquire" => ENABLED read_pwfile_acquire(p)

\* a process that left the password lock held has called for the lock of a
\* slot or of the state file, which forced the password lock open, and it
\* waits for a lock that the other process holds while that one waits for
\* the password lock
WaitsAfterForcedUnlock ==
    \E p \in Procs : \E q \in Procs \ {p} :
        /\ pc[p] = "fl_acquire"
        /\ WaitsFor(p) # PW_LOCK
        /\ ioccc_last_errmsg[p] = "Warning: forcing unlock of old lock"
        /\ BlockedBy(p, q)
        /\ WaitsFor(q) = PW_LOCK

\* C36: a lookup beside an update or a delete never writes the password
\* file.  While another process is between the truncation of the file and
\* the end of its rewrite (update_username() or delete_username() has opened
\* the file for writing and has not written yet), a step of read_pwfile()
\* leaves the file as it is: it does not copy the initial password file into
\* it, and what the rewrite commits is the list it was given.
Rewriting(q) == pc[q] \in {"uu_write", "du_write"}

ReadPwfileStep(p) ==
    /\ op'[p].name = "lookup_username"
    /\ \/ pc[p] = "idle" /\ pc'[p] = "rp_acquire"
       \/ pc[p] \in {"rp_acquire", "rp_read"}

LookupNeverSeedsDuringRewrite ==
    [][\A p \in Procs : \A q \in Procs \ {p} :
           (Rewriting(q) /\ ReadPwfileStep(p)) => pwfile' = pwfile]_vars

\* C37: no update of the password file is lost.  update_username() reads,
\* changes and rewrites the list under the password lock, so the calls of two
\* processes never interleave: a process is never inside the locked section
\* while the other is, the call that returns True has written the list it
\* found with its own record in it, and when two processes have returned
\* True from update_username() for two different usernames the password file
\* holds both records, each with the password hash its call supplied.
InLockedSection(p) ==
    \/ pc[p] = "uu_write"
    \/ pc[p] = "uu_locked" /\ loc[p].lock_ok

HasRecord(users, username, pwhash) ==
    \E i \in 1..Len(users) : users[i].username = username /\ users[i].pwhash = pwhash

UpsertReturnedTrue(p) ==
    /\ pc[p] = "idle"
    /\ op[p].name = "update_username"
    /\ result[p] = PwResult("update_username", "ok")

NoLostUpsert ==
    /\ \A p \in Procs : \A q \in Procs \ {p} : ~(InLockedSection(p) /\ InLockedSection(q))
    /\ \A p \in Procs :
           pc[p] = "uu_write" =>
               /\ HasRecord(loc[p].pw.users, op[p].user, op[p].pwhash)
               /\ \A i \in 1..Len(loc[p].before) :
                      loc[p].before[i].username # op[p].user
                          => loc[p].pw.users[i] = loc[p].before[i]
    /\ \A p \in Procs : \A q \in Procs \ {p} :
           (UpsertReturnedTrue(p) /\ UpsertReturnedTrue(q) /\ op[p].user # op[q].user) =>
               /\ pwfile.st = "ok"
               /\ HasRecord(pwfile.users, op[p].user, op[p].pwhash)
               /\ HasRecord(pwfile.users, op[q].user, op[q].pwhash)

\* both processes have called update_username() once, for different users,
\* both calls returned True and the file holds the two records
BothUpsertsKept ==
    /\ \A p \in Procs : UpsertReturnedTrue(p) /\ nops[p] = 1
    /\ op["p1"].user # op["p2"].user
    /\ pwfile.st = "ok"
    /\ Len(pwfile.users) = 2
    /\ \A p \in Procs : HasRecord(pwfile.users, op[p].user, NEW_PWHASH)

\* C38: update_slot() beside a stage_submit() of the same slot.  When the
\* uploaded file that update_slot() hashed is no longer in the slot directory
\* once update_slot() holds the slot lock (stage_submit() ran in between and
\* moved the file that no slot JSON file named yet), update_slot() returns
\* False: it does not raise, and the slot lock is released when it returns.
UploadedFileGone(p) ==
    /\ op[p].name = "upload"
    /\ pc[p] = "us_locked"
    /\ pc'[p] = "idle"
    /\ loc[p].lock_ok
    /\ loc[p].sha # None
    /\ slotdir[op[p].slot][op[p].file] = NoFile

UpdateSlotSafeAfterStage ==
    [][\A p \in Procs :
           UploadedFileGone(p) =>
               /\ result'[p].status = "fail"
               /\ lock_slot_path(op[p]) \notin {l \in LockPaths :
                      Handle(p, "singleton") \in flock'[l]}]_vars

\* C39: two calls of stage_submit() on the same slot at the same time, with
\* no upload in between.  The submit file is moved into the staging directory
\* once: a call gets past validate_slot_nolock() only while the file is in
\* the slot and nothing is staged, the step that changes the staging
\* directory is that call's os.replace() into the empty place, at most one
\* of the two calls has returned a hash, and the call that returns failure
\* leaves the staging directory as it is.
StageSucceeded(p) == result[p].op = "stage_submit" /\ result[p].status = "ok"

StagedExactlyOnce ==
    [][/\ \A p \in Procs :
              pc'[p] = "st_replace" =>
                  /\ loc'[p].slot_dict.filename \in Names
                  /\ slotdir'[op'[p].slot][loc'[p].slot_dict.filename] # NoFile
                  /\ staged' = EmptyDir
       /\ staged' # staged =>
              /\ staged = EmptyDir
              /\ \E p \in Procs :
                     /\ pc[p] = "st_replace"
                     /\ pc'[p] = "st_sweep"
                     /\ staged' = [staged EXCEPT ![loc[p].slot_dict.filename] =
                                       slotdir[op[p].slot][loc[p].slot_dict.filename]]
       /\ \A p \in Procs : \A q \in Procs \ {p} : ~(StageSucceeded(p)' /\ StageSucceeded(q)')
       /\ \A p \in Procs : StageReturns(p, "fail") => staged' = staged]_vars

\* both processes have called stage_submit() once: one call returned the
\* hash and the staged path, the other returned failure, and the staging
\* directory holds the one submit file
OneStagedOneRefused ==
    \E p \in Procs : \E q \in Procs \ {p} :
        /\ nops[p] = 1 /\ nops[q] = 1
        /\ pc[p] = "idle" /\ pc[q] = "idle"
        /\ StageSucceeded(p)
        /\ result[q] \in {StageFailure(n) : n \in 0..1}
        /\ staged[slotjson[op[p].slot].d.filename] # NoFile
        /\ slotdir[op[p].slot] = EmptyDir

\* C40: stage_submit() conserves the submit files.  In every state of every
\* run of stage_submit(), the runs that die half way included, each submit
\* file that was in the slot directory when the call began is in exactly one
\* of the slot directory, the staging directory and the unexpected
\* directory: no step removes it and no step leaves a second copy.
Places(submit_file, c) ==
    {place \in {"slot", "staged", "unexpected"} :
        c = (IF place = "slot" THEN slotdir[0][submit_file]
             ELSE IF place = "staged" THEN staged[submit_file]
             ELSE unexpected[submit_file])}

====
